---- MODULE Spec2Model ----
(***************************************************************************)
(* A model of EikonDownloader's retrieval engine: the decade partitioner   *)
(* (generate_decade_dates) and the retry loops of the fetch operations      *)
(* (get_index_chain, get_stock_timeseries, get_constituents_data), in both *)
(* modules of the package, download/downloading.py and                      *)
(* download/downloader.py.                                                  *)
(*                                                                         *)
(* Representation of the Python values:                                    *)
(*   datetime            a record [year, month, day]                        *)
(*   "YYYY-MM-DD" string a tuple <<year, month, day>>                       *)
(*   pandas Timestamp    the proleptic Gregorian ordinal (an integer)       *)
(*   None                the empty tuple <<>>; an optional int n is <<n>>  *)
(*   no exception        the string "NoExc"                                *)
(*   a name (RIC, column) a tuple of its parts, <<"0#.", "SPX">>             *)
(*   a snapshot table    a record [type, columns, nrows, allnan]            *)
(*   a time-series frame a function from column names to series, a series  *)
(*                       a function from Timestamps to values; the order   *)
(*                       of the rows is not kept, so sort_index changes    *)
(*                       nothing                                           *)
(*   NaN                 the value 0 (prices are positive)                 *)
(***************************************************************************)
EXTENDS Integers, Sequences, FiniteSets, TLC

VARIABLES
    dd_module,      \* generate_decade_dates: which module's function is called
    dd_end,         \* its end_date argument (a string)
    dd_start,       \* its start_date argument (a string, or None)
    dd_num_years,   \* its num_years argument (an int, or None)
    dd_pc,          \* "call" before the call, "return" or "raise" after it
    dd_ret,         \* the returned (start_dates, end_dates) pair
    \* --- one call of a fetch operation ---
    op,             \* the operation called
    mod,            \* the module whose EikonDownloader is used
    pre_fix,        \* the pre_fix argument
    n_rics,         \* len(rics) of get_constituents_data
    max_retries,    \* the max_retries argument
    ric_type,       \* the type of the identifier argument: "str", "int" or "list"
    request_delay,  \* self.request_delay (0: no positive number is configured)
    outer_pc,       \* get_index_data, get_index_timeseries: "call", "inner", "return",
                    \* "raise" ("none" for a call of another operation)
    retry_count,    \* the local retry_count (retries in downloader.py)
    pc,             \* "loop", "return", "raise" (and the positions after a loop)
    ret_df,         \* the table returned
    ret_err,        \* the error returned with it
    raised,         \* the exception the call ended with
    requests,       \* remote requests issued by the current retry loop
    fails,          \* attempts of the current retry loop that failed
    last_outcome,   \* what the remote source did on the latest request
    last_delay,     \* the backoff delay applied after the latest request
    trace,          \* the sleeps and the request of the latest loop pass, in order
    \* --- get_stock_timeseries ---
    ts_start,       \* the start_date argument (a string)
    ts_end,         \* the end_date argument (a string)
    caller_index_df,\* the index_df argument, as the caller holds it
    index_df,       \* the local index_df: the argument, then the table returned
    start_dates,    \* the sub-range starts generate_decade_dates returned
    end_dates,      \* the sub-range ends
    sub,            \* the position of the for loop in zip(start_dates, end_dates)
    data_retrieved, \* the local data_retrieved
    ric_timeseries_df_list, \* the local list of per-sub-range frames
    merged_ric_timeseries_df, \* the local concatenation of the list, by rows
    sub_status,     \* how each finished sub-range ended: "data", "exhausted", "skip"
    \* --- one call of OSDownloader.download_bucket ---
    os_pc,          \* the main thread: "call", "scan", "submit", "collect", "return"
    workers,        \* self.workers
    listing,        \* the object names _get_remote_files returns
    local_files,    \* per object name, the content of the local file ("none": no file)
    remote_files,   \* self.remote_files
    files_to_download, \* the local list of queued remote paths
    futures,        \* per remote path, the state of its future and its result
    work_queue,     \* the executor's queue of submitted tasks no worker has taken
    running,        \* per worker thread, the task it runs and its position
    collected,      \* the futures as_completed has yielded
    downloaded_files, \* self.downloaded_files
    corrupted_files,  \* self.corrupted_files
    fget_calls,     \* per object name, the number of fget_object calls
    transfer,       \* per object name, how its latest fget_object call ended
    verified,       \* per object name, what the verification after its transfer found
    scanned,        \* per object name, the local file and the verification of the scan
    calls_made,     \* the download_bucket calls begun on this OSDownloader
    remote_files_before, \* len(self.remote_files) when the current call began
    \* --- the chunk loop of download_constituents_stats.py ---
    batch_pc,       \* "chunks" in the loop, "merge" after it, then "merged" or "continue"
    part,           \* the position of the loop in chunked_uni_rics
    additional_stock_data_df_list, \* the tables collected
    chunk_status,   \* per finished chunk, "data" or "failed", and the rows it returned
    merged_df,      \* the combined table
    \* --- one call of generate_target_dates ---
    gt_module,      \* which module's function is called
    gt_end,         \* its end_date argument (a string)
    gt_num_years,   \* its num_years argument
    gt_frequency,   \* its frequency argument
    gt_reverse,     \* its reverse argument (reserve in downloader.py)
    gt_pc,          \* "call" before the call, "return" or "raise" after it
    gt_ret,         \* the list returned, or the exception raised
    \* --- the three retry loops of downloading.py, fed the same faults ---
    side_pc,        \* per operation, "loop" or "ended" ("idle": not run)
    side_retry,     \* per operation, its retry_count
    side_delay,     \* per operation, the delay its latest pass applied
    side_faults,    \* the faults raised so far, one per pass
    \* --- one call of DataProcessor.split_list ---
    sl_lst,         \* its lst argument
    sl_chunk_size,  \* its chunk_size argument
    sl_pc,          \* "call" before the call, "return" or "raise" after it
    sl_ret          \* the list of chunks returned, or the exception raised

dd_vars == <<dd_module, dd_end, dd_start, dd_num_years, dd_pc, dd_ret>>

call_args == <<op, mod, pre_fix, n_rics, max_retries, ric_type, request_delay>>

call_vars == <<call_args, outer_pc>>

loop_vars == <<retry_count, pc, ret_df, ret_err, raised, requests, fails,
               last_outcome, last_delay, trace>>

ts_args == <<ts_start, ts_end, caller_index_df>>

ts_vars == <<index_df, start_dates, end_dates, sub, data_retrieved,
             ric_timeseries_df_list, merged_ric_timeseries_df, sub_status>>

fetch_vars == <<call_vars, loop_vars, ts_args, ts_vars>>

\* the variables only a further call on the same OSDownloader changes
again_vars == <<calls_made, remote_files_before>>

os_vars == <<os_pc, workers, listing, local_files, remote_files, files_to_download,
             futures, work_queue, running, collected, downloaded_files,
             corrupted_files, fget_calls, transfer, verified, scanned, again_vars>>

gt_vars == <<gt_module, gt_end, gt_num_years, gt_frequency, gt_reverse, gt_pc, gt_ret>>

batch_vars == <<batch_pc, part, additional_stock_data_df_list, chunk_status, merged_df>>

\* the variables of the operations other than the date and fetch functions
side_vars == <<side_pc, side_retry, side_delay, side_faults>>

split_vars == <<sl_lst, sl_chunk_size, sl_pc, sl_ret>>

other_vars == <<os_vars, batch_vars, gt_vars, side_vars, split_vars>>

\* the variables download_bucket leaves alone
non_os_vars == <<dd_vars, fetch_vars, batch_vars, gt_vars, side_vars, split_vars>>

\* the variables the chunk loop leaves alone
non_batch_vars == <<dd_vars, os_vars, gt_vars, side_vars, split_vars, ts_args, ts_vars>>

vars == <<dd_vars, fetch_vars, other_vars>>

\* Python's None, for an optional string or an optional int
None == <<>>
\* an int argument that is given
Some(n) == <<n>>
\* the marker of a call that raised nothing
NoExc == "NoExc"
\* Python's None where an error message (a str) may stand
NoError == "None"

\* the two modules that define EikonDownloader
Modules == {"downloading", "downloader"}

----------------------------------------------------------------------------
(* Bounds of the date inputs.                                              *)

\* the most recent calendar year an input date is drawn from
LastYear == 2024
\* how many years before LastYear an input date may lie
YearsBack == 21
\* the largest num_years argument drawn
MaxNumYears == 12

FirstYear == LastYear - YearsBack

----------------------------------------------------------------------------
(* The calendar of Python's datetime module.                               *)

IsLeap(y) == (y % 4 = 0) /\ ((y % 100 # 0) \/ (y % 400 = 0))

DaysInMonth(y, m) ==
    IF m = 2 THEN (IF IsLeap(y) THEN 29 ELSE 28)
    ELSE IF m \in {4, 6, 9, 11} THEN 30 ELSE 31

\* datetime(y, m, d)
datetime(y, m, d) == [year |-> y, month |-> m, day |-> d]

IsValidDate(y, m, d) ==
    /\ y >= 1
    /\ m \in 1..12
    /\ d >= 1
    /\ d <= DaysInMonth(y, m)

\* days in the years before year y (datetime._days_before_year)
DaysBeforeYear(y) ==
    (y - 1) * 365 + ((y - 1) \div 4) - ((y - 1) \div 100) + ((y - 1) \div 400)

RECURSIVE DaysBeforeMonth(_, _)
\* days of year y before the first day of month m (datetime._days_before_month)
DaysBeforeMonth(y, m) ==
    IF m = 1 THEN 0 ELSE DaysBeforeMonth(y, m - 1) + DaysInMonth(y, m - 1)

\* datetime.toordinal: the day number pandas orders a date index by
toordinal(dt) == DaysBeforeYear(dt.year) + DaysBeforeMonth(dt.year, dt.month) + dt.day

\* dt + timedelta(days=1)
PlusOneDay(dt) ==
    IF dt.day < DaysInMonth(dt.year, dt.month)
    THEN [dt EXCEPT !.day = dt.day + 1]
    ELSE IF dt.month < 12
         THEN datetime(dt.year, dt.month + 1, 1)
         ELSE datetime(dt.year + 1, 1, 1)

\* datetime.strptime(s, "%Y-%m-%d")
strptime(s) == datetime(s[1], s[2], s[3])

\* dt.strftime("%Y-%m-%d")
strftime(dt) == <<dt.year, dt.month, dt.day>>

\* dt1 < dt2 on datetimes
DtLess(a, b) ==
    \/ a.year < b.year
    \/ a.year = b.year /\ a.month < b.month
    \/ a.year = b.year /\ a.month = b.month /\ a.day < b.day

\* the ordinal of a date string (pd.to_datetime / pd.Timestamp of the string)
StrOrdinal(s) == toordinal(strptime(s))

----------------------------------------------------------------------------
(* generate_decade_dates, downloading.py.                                  *)

Raise(exc) == [exc |-> exc, start_dates |-> <<>>, end_dates |-> <<>>]
Return(sds, eds) == [exc |-> NoExc, start_dates |-> sds, end_dates |-> eds]

\* end_date.replace(year=y): Python raises ValueError where the result is no
\* date (29 February moved into a common year, or a year below 1)
replace_year(dt, y) ==
    IF IsValidDate(y, dt.month, dt.day)
    THEN [exc |-> NoExc, dt |-> [dt EXCEPT !.year = y]]
    ELSE [exc |-> "ValueError", dt |-> dt]

\* the resolution with num_years taking precedence over start_date
resolve_start_date_num_years_first(end_date, num_years, start_date) ==
    IF num_years # None
    THEN LET moved == replace_year(end_date, end_date.year - num_years[1])
         IN  IF moved.exc # NoExc
             THEN moved
             ELSE [exc |-> NoExc, dt |-> PlusOneDay(moved.dt)]
    ELSE IF start_date # None
         THEN [exc |-> NoExc, dt |-> strptime(start_date)]
         ELSE [exc |-> "ValueError", dt |-> end_date]

\* the start date the function resolves: a datetime, or the exception raised
resolve_start_date(end_date, num_years, start_date) ==
    IF start_date # None
    THEN [exc |-> NoExc, dt |-> strptime(start_date)]
    ELSE IF num_years # None
         THEN LET moved == replace_year(end_date, end_date.year - num_years[1])
              IN  IF moved.exc # NoExc
                  THEN moved
                  ELSE [exc |-> NoExc, dt |-> PlusOneDay(moved.dt)]
         ELSE [exc |-> "ValueError", dt |-> end_date]

RECURSIVE decade_loop_unclipped(_, _, _, _, _)
\* decade_loop without the clipping of the oldest window to start_date
decade_loop_unclipped(current_year, start_date, end_date, starts, ends) ==
    IF ~(current_year >= start_date.year)
    THEN Return(starts, ends)
    ELSE LET end_of_decade   == datetime(current_year, 12, 31)
             start_of_decade == datetime(current_year - 9, 1, 1)
         IN  IF DtLess(end_of_decade, start_date)
             THEN Return(starts, ends)
             ELSE LET eod == IF DtLess(end_date, end_of_decade)
                             THEN end_date ELSE end_of_decade
                  IN  decade_loop_unclipped(current_year - 10, start_date, end_date,
                                  Append(starts, strftime(start_of_decade)),
                                  Append(ends, strftime(eod)))

RECURSIVE decade_loop(_, _, _, _, _)
\* the while loop of lines 196-212, from the state (current_year, lists)
decade_loop(current_year, start_date, end_date, starts, ends) ==
    IF ~(current_year >= start_date.year)
    THEN Return(starts, ends)
    ELSE LET end_of_decade   == datetime(current_year, 12, 31)
             start_of_decade == datetime(current_year - 9, 1, 1)
         IN  IF DtLess(end_of_decade, start_date)
             THEN Return(starts, ends)
             ELSE LET sod == IF DtLess(start_of_decade, start_date)
                             THEN start_date ELSE start_of_decade
                      eod == IF DtLess(end_date, end_of_decade)
                             THEN end_date ELSE end_of_decade
                  IN  decade_loop(current_year - 10, start_date, end_date,
                                  Append(starts, strftime(sod)),
                                  Append(ends, strftime(eod)))

generate_decade_dates(end_date, num_years, start_date) ==
    LET end_dt == strptime(end_date)
        res    == resolve_start_date(end_dt, num_years, start_date)
    IN  IF res.exc # NoExc THEN Raise(res.exc)
        ELSE IF DtLess(end_dt, res.dt) THEN Raise("ValueError")
        ELSE decade_loop(end_dt.year, res.dt, end_dt, <<>>, <<>>)

----------------------------------------------------------------------------
(* generate_decade_dates, downloader.py.                                   *)

downloader_resolve_start_date(end_date, num_years, start_date) ==
    IF start_date # None
    THEN [exc |-> NoExc, dt |-> strptime(start_date)]
    ELSE IF num_years # None
         THEN replace_year(end_date, end_date.year - num_years[1])
         ELSE [exc |-> "ValueError", dt |-> end_date]

RECURSIVE downloader_decade_loop(_, _, _, _)
\* the while loop of lines 150-154, from the state (current_date, lists)
downloader_decade_loop(current_date, start_date, starts, ends) ==
    IF DtLess(current_date, start_date)
    THEN Return(starts, ends)
    ELSE LET start_of_decade == datetime(current_date.year - 9, 1, 1)
         IN  downloader_decade_loop(
                 [start_of_decade EXCEPT !.year = current_date.year - 10],
                 start_date,
                 Append(starts, strftime(start_of_decade)),
                 Append(ends, strftime(current_date)))

downloader_generate_decade_dates(end_date, num_years, start_date) ==
    LET end_dt == strptime(end_date)
        res    == downloader_resolve_start_date(end_dt, num_years, start_date)
    IN  IF res.exc # NoExc THEN Raise(res.exc)
        ELSE IF DtLess(end_dt, res.dt) THEN Raise("ValueError")
        ELSE downloader_decade_loop(end_dt, res.dt, <<>>, <<>>)

----------------------------------------------------------------------------
(* Bounds of the fetch calls.                                              *)

\* the largest max_retries argument drawn (the smallest is -1)
MaxRetriesBound == 3

\* remote requests one retry loop may issue before the model stops counting
ReqCap == MaxRetriesBound + 2

----------------------------------------------------------------------------
(* The remote source: what one ek.get_data / ek.get_timeseries call does.  *)

\* the Eikon fault codes drawn: the five the code names and one it does not
EikonCodes == {-1, 401, 429, 500, 2504, 400}

\* a snapshot table of nrows rows
DataFrame(columns, nrows, allnan) ==
    [type |-> "DataFrame", columns |-> columns, nrows |-> nrows, allnan |-> allnan]

\* a value that is no DataFrame: None, or a raw dict
NotAFrame(type) == [type |-> type, columns |-> <<>>, nrows |-> 0, allnan |-> FALSE]

NoneValue == NotAFrame("NoneType")

\* isinstance(x, pd.DataFrame)
isinstance_DataFrame(x) == x.type = "DataFrame"

\* x.empty of a DataFrame
empty(x) == x.nrows = 0 \/ Len(x.columns) = 0

\* the tables a snapshot request may return: None, a raw dict, tables of 0
\* to 2 rows, and a table of 2 rows of which a column holds NaN only
RemoteTables ==
    {NoneValue, NotAFrame("dict")}
        \cup { DataFrame(<< <<"Instrument">>, <<"Field">> >>, n, FALSE) : n \in 0..2 }
        \cup { DataFrame(<< <<"Instrument">>, <<"Field">> >>, 2, TRUE) }

\* the err part of ek.get_data's result: the codes of its error entries
\* (None and the empty list are both falsy)
RemoteErrs == {<<>>, <<412>>, <<413>>}

Result(df, err) == [kind |-> "result", df |-> df, err |-> err, code |-> 0]
EikonError(code) == [kind |-> "EikonError", df |-> NoneValue, err |-> <<>>, code |-> code]
OtherException == [kind |-> "Exception", df |-> NoneValue, err |-> <<>>, code |-> 0]
NoRequestYet == [kind |-> "none", df |-> NoneValue, err |-> <<>>, code |-> 0]

\* everything one ek.get_data call may do
GetDataOutcomes ==
    { Result(df, err) : df \in RemoteTables, err \in RemoteErrs }
        \cup { EikonError(c) : c \in EikonCodes }
        \cup { OtherException }

\* the outcome is a failure the caller may retry: an empty or malformed
\* result, an Eikon fault other than -1, or a non-Eikon exception
IsFailure(o) ==
    \/ o.kind = "result" /\ ~(isinstance_DataFrame(o.df) /\ ~empty(o.df))
    \/ o.kind = "EikonError" /\ o.code # -1
    \/ o.kind = "Exception"

----------------------------------------------------------------------------
(* What one pass of a retry loop decides: act is "return" (the data),      *)
(* "skip" (give up with a placeholder), "retry" or "unexpected"; delay is  *)
(* the backoff tier slept; retry is what is added to retry_count.          *)

Handled(act, delay, retry) == [act |-> act, delay |-> delay, retry |-> retry]

\* _apply_request_delay(): time.sleep(self.request_delay) where a positive
\* number is configured, nothing otherwise
_apply_request_delay(delay) == IF delay > 0 THEN <<"request_delay">> ELSE <<>>

\* the _apply_..._delay call of the branch taken after the request (the tier
\* delays are configured positive, as by default); downloader.py sleeps the
\* request delay after an Eikon fault other than -1 and 429
backoff(h) ==
    IF h.delay = "none" THEN <<>>
    ELSE IF h.delay = "request" THEN _apply_request_delay(request_delay)
    ELSE <<h.delay>>

\* a pass that issues its request without the request delay before it
loop_pass_undelayed(h) == <<"request">> \o backoff(h)

\* one pass of a retry loop: self._apply_request_delay(), the remote request,
\* then the branch taken
loop_pass(h) == _apply_request_delay(request_delay) \o <<"request">> \o backoff(h)

----------------------------------------------------------------------------
(* get_index_chain, downloading.py.                                        *)

\* _empty_df_chain(ric), a staticmethod
_empty_df_chain(ric) ==
    IF ric = <<>>
    THEN [exc |-> "ValueError", df |-> NoneValue]
    ELSE [exc |-> NoExc, df |-> DataFrame(<<ric>>, 1, TRUE)]

\* the identifier as it was passed, whatever the prefix
unprefixed(pre, ric) == ric

\* lines 248-249: index_ric = pre_fix + index_ric
prefixed(pre, ric) == IF pre # None THEN pre \o ric ELSE ric

\* the clause with the retry of a network error (500) left uncounted
get_index_chain_on_error_uncounted(code) ==
    IF code = -1 THEN Handled("skip", "none", 0)
    ELSE IF code = 401 THEN Handled("retry", "proxy_error", 1)
    ELSE IF code = 429 THEN Handled("retry", "request_limit", 1)
    ELSE IF code = 500 THEN Handled("retry", "network_error", 0)
    ELSE IF code = 2504 THEN Handled("retry", "gateway", 1)
    ELSE Handled("retry", "general_error", 1)

\* the clause without the branch for code -1
get_index_chain_on_error_no_skip(code) ==
    IF code = 401 THEN Handled("retry", "proxy_error", 1)
    ELSE IF code = 429 THEN Handled("retry", "request_limit", 1)
    ELSE IF code = 500 THEN Handled("retry", "network_error", 1)
    ELSE IF code = 2504 THEN Handled("retry", "gateway", 1)
    ELSE Handled("retry", "general_error", 1)

\* lines 286-323: the except ek.EikonError clause
get_index_chain_on_error(code) ==
    IF code = -1 THEN Handled("skip", "none", 0)
    ELSE IF code = 401 THEN Handled("retry", "proxy_error", 1)
    ELSE IF code = 429 THEN Handled("retry", "request_limit", 1)
    ELSE IF code = 500 THEN Handled("retry", "network_error", 1)
    ELSE IF code = 2504 THEN Handled("retry", "gateway", 1)
    ELSE Handled("retry", "general_error", 1)

\* the body with a non-Eikon exception ending the fetch, as in downloader.py
get_index_chain_handle_exception_ends(o) ==
    IF o.kind = "result"
    THEN IF isinstance_DataFrame(o.df) /\ ~empty(o.df)
         THEN Handled("return", "none", 0)
         ELSE Handled("retry", "general_error", 1)
    ELSE IF o.kind = "EikonError"
    THEN get_index_chain_on_error(o.code)
    ELSE Handled("unexpected", "none", 0)

\* lines 259-330: the body of the while loop, given what the request did
get_index_chain_handle(o) ==
    IF o.kind = "result"
    THEN IF isinstance_DataFrame(o.df) /\ ~empty(o.df)
         THEN Handled("return", "none", 0)
         ELSE Handled("retry", "general_error", 1)
    ELSE IF o.kind = "EikonError"
    THEN get_index_chain_on_error(o.code)
    ELSE Handled("retry", "general_error", 1)

\* a loop whose body runs once before its condition is looked at
loop_runs_body_first(count, budget) == count < budget \/ count = 0

\* while retry_count < max_retries: the condition is looked at before every
\* pass, the first one too
loop_runs(count, budget) == count < budget

\* the effect of a pass on the call: the next position and the return value
Finish(h, o, placeholder, skip_msg) ==
    IF h.act = "return"
    THEN /\ pc' = "return" /\ ret_df' = o.df /\ ret_err' = NoError /\ raised' = NoExc
    ELSE IF h.act \in {"skip", "unexpected"}
    THEN IF placeholder.exc # NoExc
         THEN /\ pc' = "raise" /\ raised' = placeholder.exc
              /\ UNCHANGED <<ret_df, ret_err>>
         ELSE /\ pc' = "return" /\ ret_df' = placeholder.df
              /\ ret_err' = skip_msg /\ raised' = NoExc
    ELSE /\ pc' = "loop" /\ UNCHANGED <<ret_df, ret_err, raised>>

\* the bookkeeping of a pass: the request is counted, its outcome recorded
Attempt(h, o) ==
    /\ requests' = requests + 1
    /\ fails' = IF IsFailure(o) THEN fails + 1 ELSE fails
    /\ last_outcome' = o
    /\ last_delay' = h.delay
    /\ trace' = loop_pass(h)
    /\ retry_count' = retry_count + h.retry

\* the message returned with a skipped or unexpected failure
ErrorMessage(h, o) ==
    IF h.act = "unexpected" THEN "Unexpected error"
    ELSE IF o.code = -1 THEN "Error: -1" ELSE "Error"

\* the code after the loop: the budget is used up
Exhausted(placeholder) ==
    /\ IF placeholder.exc # NoExc
       THEN /\ pc' = "raise" /\ raised' = placeholder.exc
            /\ UNCHANGED <<ret_df, ret_err>>
       ELSE /\ pc' = "return" /\ ret_df' = placeholder.df
            /\ ret_err' = "Max retries exceeded." /\ raised' = NoExc
    /\ UNCHANGED <<retry_count, requests, fails, last_outcome, last_delay, trace>>

\* the entry check of an operation that takes any identifier
check_nothing(type) == NoExc

\* lines 245-246: index_ric must be a str
get_index_chain_check(type) == IF type # "str" THEN "TypeError" ELSE NoExc

\* the entry of an operation: its check raises, or the retry loop is entered
Enter(exc) ==
    /\ pc = "call"
    /\ raised' = exc
    /\ pc' = IF exc # NoExc THEN "raise" ELSE "loop"
    /\ UNCHANGED <<retry_count, ret_df, ret_err, requests, fails, last_outcome,
                   last_delay, trace>>
    /\ UNCHANGED <<dd_vars, other_vars, call_vars, ts_args, ts_vars>>

\* lines 245-257: the arguments are checked and normalised, retry_count = 0
get_index_chain_begin ==
    /\ op = "get_index_chain" /\ mod = "downloading"
    /\ Enter(get_index_chain_check(ric_type))

\* one pass of the while loop of get_index_chain
get_index_chain_attempt ==
    /\ op = "get_index_chain" /\ mod = "downloading"
    /\ pc = "loop"
    /\ loop_runs(retry_count, max_retries)
    /\ requests < ReqCap
    /\ \E o \in GetDataOutcomes :
          LET h == get_index_chain_handle(o)
          IN  /\ Attempt(h, o)
              /\ Finish(h, o, _empty_df_chain(prefixed(pre_fix, <<"SPX">>)),
                        ErrorMessage(h, o))
    /\ UNCHANGED <<dd_vars, other_vars, call_vars, ts_args, ts_vars>>

\* lines 332-336: the loop ended without a return
get_index_chain_exhausted ==
    /\ op = "get_index_chain" /\ mod = "downloading"
    /\ pc = "loop"
    /\ ~(loop_runs(retry_count, max_retries))
    /\ Exhausted(_empty_df_chain(prefixed(pre_fix, <<"SPX">>)))
    /\ UNCHANGED <<dd_vars, other_vars, call_vars, ts_args, ts_vars>>

----------------------------------------------------------------------------
(* get_index_chain, downloader.py.                                         *)

\* _empty_df_chain(ric), a method
downloader_empty_df_chain(ric) == [exc |-> NoExc, df |-> DataFrame(<<ric>>, 1, TRUE)]

\* lines 229-245: the except ek.EikonError clause
downloader_get_index_chain_on_error(code) ==
    IF code = -1 THEN Handled("skip", "none", 0)
    ELSE IF code = 429 THEN Handled("retry", "request_limit", 1)
    ELSE Handled("retry", "none", 1)

\* lines 206-250: the body of the while loop, given what the request did
downloader_get_index_chain_handle(o) ==
    IF o.kind = "result"
    THEN IF o.df.type = "NoneType" THEN Handled("retry", "none", 1)
         ELSE IF ~isinstance_DataFrame(o.df) THEN Handled("unexpected", "none", 0)
         ELSE IF ~empty(o.df) THEN Handled("return", "none", 0)
         ELSE Handled("retry", "none", 1)
    ELSE IF o.kind = "EikonError"
    THEN downloader_get_index_chain_on_error(o.code)
    ELSE Handled("unexpected", "none", 0)

\* lines 194-195 of downloader.py: index_ric must be a str
downloader_get_index_chain_check(type) == IF type # "str" THEN "TypeError" ELSE NoExc

\* lines 194-203: the arguments are checked and normalised, retry_count = 0
downloader_get_index_chain_begin ==
    /\ op = "get_index_chain" /\ mod = "downloader"
    /\ Enter(downloader_get_index_chain_check(ric_type))

\* one pass of the while loop of get_index_chain
downloader_get_index_chain_attempt ==
    /\ op = "get_index_chain" /\ mod = "downloader"
    /\ pc = "loop"
    /\ loop_runs(retry_count, max_retries)
    /\ requests < ReqCap
    /\ \E o \in GetDataOutcomes :
          LET h == downloader_get_index_chain_handle(o)
          IN  /\ Attempt(h, o)
              /\ Finish(h, o, downloader_empty_df_chain(prefixed(pre_fix, <<"SPX">>)),
                        ErrorMessage(h, o))
    /\ UNCHANGED <<dd_vars, other_vars, call_vars, ts_args, ts_vars>>

\* lines 252-255: the loop ended without a return
downloader_get_index_chain_exhausted ==
    /\ op = "get_index_chain" /\ mod = "downloader"
    /\ pc = "loop"
    /\ ~(loop_runs(retry_count, max_retries))
    /\ Exhausted(downloader_empty_df_chain(prefixed(pre_fix, <<"SPX">>)))
    /\ UNCHANGED <<dd_vars, other_vars, call_vars, ts_args, ts_vars>>

----------------------------------------------------------------------------
(* get_constituents_data, downloading.py.                                  *)

\* the positional arguments a call self.f(args) binds: a staticmethod gets
\* the arguments alone, a method gets self before them
bound_args(is_static, args) == IF is_static THEN args ELSE <<"self">> \o args

\* _empty_df_data: declared @staticmethod with the parameters
\* (self, rics, fields); Python raises TypeError unless it gets all three
_empty_df_data(args) ==
    IF Len(args) # 3
    THEN [exc |-> "TypeError", df |-> NoneValue]
    ELSE [exc |-> NoExc,
          df |-> DataFrame(<< <<"RIC">> >> \o args[3], 1, TRUE)]

\* the rics and fields arguments of the call
Rics == [i \in 1..n_rics |-> <<"RIC", i>>]
Fields == << <<"Field">> >>

\* the clause with the general-error delay for a network error (500)
get_constituents_data_on_error_network_general(code) ==
    IF code = -1 THEN Handled("skip", "none", 0)
    ELSE IF code = 401 THEN Handled("retry", "proxy_error", 1)
    ELSE IF code = 429 THEN Handled("retry", "request_limit", 1)
    ELSE IF code = 2504 THEN Handled("retry", "gateway", 1)
    ELSE Handled("retry", "general_error", 1)

\* lines 765-803: the except ek.EikonError clause
get_constituents_data_on_error(code) ==
    IF code = -1 THEN Handled("skip", "none", 0)
    ELSE IF code = 401 THEN Handled("retry", "proxy_error", 1)
    ELSE IF code = 429 THEN Handled("retry", "request_limit", 1)
    ELSE IF code = 500 THEN Handled("retry", "network_error", 1)
    ELSE IF code = 2504 THEN Handled("retry", "gateway", 1)
    ELSE Handled("retry", "general_error", 1)

\* a threshold of no rows, whatever the number of identifiers
min_rows_zero(n) == 0

\* int(len(rics) * 0.1)
min_rows(n) == n \div 10

\* lines 715-811: the body of the while loop, given what the request did
get_constituents_data_handle(o, n) ==
    IF o.kind = "result"
    THEN IF isinstance_DataFrame(o.df) /\ ~empty(o.df) /\ o.df.nrows > min_rows(n)
         THEN Handled("return", "none", 0)
         ELSE IF o.err # <<>>
         THEN IF \E i \in 1..Len(o.err) : o.err[i] = 412
              THEN Handled("return", "none", 0)
              ELSE Handled("retry", "none", 1)
         ELSE Handled("retry", "none", 1)
    ELSE IF o.kind = "EikonError"
    THEN get_constituents_data_on_error(o.code)
    ELSE Handled("retry", "general_error", 1)

\* one pass of the while loop of get_constituents_data
get_constituents_data_attempt ==
    /\ op \in {"get_constituents_data", "get_index_data"} /\ mod = "downloading"
    /\ pc = "loop"
    /\ loop_runs(retry_count, max_retries)
    /\ requests < ReqCap
    /\ \E o \in GetDataOutcomes :
          LET h == get_constituents_data_handle(o, n_rics)
          IN  /\ Attempt(h, o)
              /\ Finish(h, o, _empty_df_data(bound_args(TRUE, <<Rics, Fields>>)),
                        ErrorMessage(h, o))
    /\ UNCHANGED <<dd_vars, other_vars, call_vars, ts_args, ts_vars>>

\* lines 813-817: the loop ended without a return
get_constituents_data_exhausted ==
    /\ op \in {"get_constituents_data", "get_index_data"} /\ mod = "downloading"
    /\ pc = "loop"
    /\ ~(loop_runs(retry_count, max_retries))
    /\ Exhausted(_empty_df_data(bound_args(TRUE, <<Rics, Fields>>)))
    /\ UNCHANGED <<dd_vars, other_vars, call_vars, ts_args, ts_vars>>

----------------------------------------------------------------------------
(* Time-series frames.                                                     *)

\* np.nan
NaN == 0

\* the ric argument, and the column a request for the field CLOSE returns
Ric == <<"RIC1">>
Close == <<"CLOSE">>

\* a frame of the given columns and index; cells holds, per column, the
\* values that are not NaN
Frame(columns, index, cells) ==
    [type |-> "DataFrame", columns |-> columns, index |-> index, cells |-> cells]

\* None, or a raw dict, where a frame is expected
NotATable(type) == [type |-> type, columns |-> {}, index |-> {}, cells |-> <<>>]

NoTable == NotATable("NoneType")

\* df[c][d]
Cell(df, c, d) == IF d \in DOMAIN df.cells[c] THEN df.cells[c][d] ELSE NaN

\* pd.date_range(start=start_date, end=end_date, freq='D')
date_range(start_date, end_date) == StrOrdinal(start_date)..StrOrdinal(end_date)

\* pd.DataFrame(index=index, columns=[ric], data=np.nan)
nan_frame(index, ric) == Frame({ric}, index, (ric :> <<>>))

\* df.columns = [ric]: pandas raises ValueError unless df has one column
set_columns(df, ric) ==
    IF Cardinality(df.columns) # 1
    THEN [exc |-> "ValueError", df |-> df]
    ELSE [exc |-> NoExc,
          df |-> Frame({ric}, df.index,
                       (ric :> df.cells[CHOOSE c \in df.columns : TRUE]))]

\* the position in frames of the first frame that has a row for date d
first_with(frames, d) ==
    CHOOSE i \in 1..Len(frames) :
        /\ d \in frames[i].index
        /\ \A j \in 1..(i - 1) : d \notin frames[j].index

\* a one-column table by rows: rows holds, per date that has several rows
\* or a row that is not NaN, the values of its rows in row order; every
\* other date of the index has the one row NaN
RowsTable(index, rows) == [index |-> index, rows |-> rows]

NoRows == RowsTable({}, <<>>)

\* the values of the rows of date d
RowsOf(t, d) == IF d \in DOMAIN t.rows THEN t.rows[d] ELSE <<NaN>>

\* the elements of seq at the positions where mask is FALSE
unmasked(seq, mask) ==
    LET ks == SelectSeq([i \in 1..Len(seq) |-> i], LAMBDA i : ~mask[i])
    IN  [j \in 1..Len(ks) |-> seq[ks[j]]]

\* pd.concat(frames, axis=0): the rows of the frames, one frame after the other
concat(frames, ric) ==
    LET index  == UNION { frames[i].index : i \in 1..Len(frames) }
        all    == [i \in 1..Len(frames) |-> i]
        valued == UNION { DOMAIN frames[i].cells[ric] : i \in 1..Len(frames) }
        pairs  == { ij \in (1..Len(frames)) \X (1..Len(frames)) : ij[1] < ij[2] }
        shared == UNION { frames[ij[1]].index \cap frames[ij[2]].index : ij \in pairs }
    IN  RowsTable(index,
            [d \in valued \cup shared |->
                LET hits == SelectSeq(all, LAMBDA i : d \in frames[i].index)
                IN  [k \in 1..Len(hits) |-> Cell(frames[hits[k]], ric, d)]])

\* index.duplicated(keep='last') on the rows of one date
duplicated_keep_last(rows) == [k \in 1..Len(rows) |-> k < Len(rows)]

\* index.duplicated(keep='first') on the rows of one date: every row but
\* the first is a duplicate
duplicated(rows) == [k \in 1..Len(rows) |-> k > 1]

\* df[~df.index.duplicated(keep='first')]
drop_duplicated(t) ==
    RowsTable(t.index,
              [d \in DOMAIN t.rows |-> unmasked(t.rows[d], duplicated(t.rows[d]))])

\* the frame of a table by rows (of the rows of one date, the first)
to_frame(t, ric) ==
    LET valued == { d \in DOMAIN t.rows : t.rows[d][1] # NaN }
    IN  Frame({ric}, t.index, (ric :> [d \in valued |-> t.rows[d][1]]))

\* lines 653-658: the concatenation without the duplicated rows
concat_keep_first(frames, ric) == to_frame(drop_duplicated(concat(frames, ric)), ric)

\* left.join(right, how='left'): the rows of the dates of left only
join_left(left, right) ==
    IF left.columns \cap right.columns # {}
    THEN [exc |-> "ValueError", df |-> left]
    ELSE [exc |-> NoExc,
          df |-> Frame(left.columns \cup right.columns,
                       left.index,
                       left.cells @@
                           [c \in right.columns |->
                               [d \in DOMAIN right.cells[c] \cap left.index |-> right.cells[c][d]]])]

\* left.join(right, how='outer'): pandas raises ValueError when the two
\* share a column name
join_outer(left, right) ==
    IF left.columns \cap right.columns # {}
    THEN [exc |-> "ValueError", df |-> left]
    ELSE [exc |-> NoExc,
          df |-> Frame(left.columns \cup right.columns,
                       left.index \cup right.index,
                       left.cells @@ right.cells)]

\* the prices a returned series holds
Prices == {1, 2}

\* the frames a request for the sub-range [start_date, end_date] may return:
\* rows on its last day, on its first and last day or on its last day and
\* the last day of the whole span, one column or (when several fields are
\* asked for) two, or no row at all
RemoteFrames(start_date, end_date) ==
    LET lo == StrOrdinal(start_date)
        hi == StrOrdinal(end_date)
    IN  { Frame({Close}, days, (Close :> [d \in days |-> v])) :
              days \in {{hi}, {lo, hi}, {hi, StrOrdinal(ts_end)}}, v \in Prices }
            \cup { Frame({Close, <<"VOLUME">>}, {hi},
                         (Close :> [d \in {hi} |-> 1]) @@ (<<"VOLUME">> :> [d \in {hi} |-> 1])) }
            \cup { Frame({Close}, {}, (Close :> <<>>)) }

\* everything one ek.get_timeseries call for the sub-range may do
GetTimeseriesOutcomes(start_date, end_date) ==
    { Result(f, <<>>) : f \in RemoteFrames(start_date, end_date) }
        \cup { Result(NoTable, <<>>), Result(NotATable("dict"), <<>>) }
        \cup { [EikonError(c) EXCEPT !.df = NoTable] : c \in EikonCodes }
        \cup { [OtherException EXCEPT !.df = NoTable] }

\* the request returned a non-empty DataFrame
HasData(o) ==
    /\ o.kind = "result"
    /\ o.df.type = "DataFrame"
    /\ o.df.index # {}

\* the outcome is a failure the caller may retry: no usable series of the
\* one identifier, an Eikon fault other than -1, or a non-Eikon exception
TSIsFailure(o) ==
    \/ o.kind = "result" /\ ~(HasData(o) /\ Cardinality(o.df.columns) = 1)
    \/ o.kind = "EikonError" /\ o.code # -1
    \/ o.kind = "Exception"

----------------------------------------------------------------------------
(* get_stock_timeseries, downloading.py.                                   *)

\* the clause with code -1 handled as every code it does not name
get_stock_timeseries_on_error_no_skip(code) ==
    IF code = 401 THEN Handled("retry", "proxy_error", 1)
    ELSE IF code = 429 THEN Handled("retry", "request_limit", 1)
    ELSE IF code = 500 THEN Handled("retry", "network_error", 1)
    ELSE IF code = 2504 THEN Handled("retry", "gateway", 1)
    ELSE Handled("retry", "general_error", 1)

\* lines 586-625: the except ek.EikonError clause
get_stock_timeseries_on_error(code) ==
    IF code = -1 THEN Handled("skip", "none", 0)
    ELSE IF code = 401 THEN Handled("retry", "proxy_error", 1)
    ELSE IF code = 429 THEN Handled("retry", "request_limit", 1)
    ELSE IF code = 500 THEN Handled("retry", "network_error", 1)
    ELSE IF code = 2504 THEN Handled("retry", "gateway", 1)
    ELSE Handled("retry", "general_error", 1)

\* lines 541-634: the body of the while loop, given what the request did
get_stock_timeseries_handle(o) ==
    IF o.kind = "result"
    THEN IF o.df.type = "DataFrame"
         THEN IF o.df.index # {}
              THEN IF set_columns(o.df, Ric).exc # NoExc
                   THEN Handled("retry", "general_error", 1)
                   ELSE Handled("return", "none", 0)
              ELSE Handled("retry", "none", 1)
         ELSE Handled("retry", "none", 1)
    ELSE IF o.kind = "EikonError"
    THEN get_stock_timeseries_on_error(o.code)
    ELSE Handled("retry", "general_error", 1)

\* lines 523-533: the sub-ranges are computed, the for loop is entered
get_stock_timeseries_begin ==
    /\ op \in {"get_stock_timeseries", "get_index_timeseries"} /\ mod = "downloading"
    /\ UNCHANGED merged_ric_timeseries_df
    /\ pc = "call"
    /\ LET r == generate_decade_dates(ts_end, None, ts_start)
       IN  /\ start_dates' = r.start_dates
           /\ end_dates' = r.end_dates
           /\ raised' = r.exc
           /\ pc' = IF r.exc # NoExc THEN "raise"
                    ELSE IF Len(r.start_dates) = 0 THEN "merge" ELSE "loop"
    /\ UNCHANGED <<retry_count, ret_df, ret_err, requests, fails, last_outcome,
                   last_delay, trace, index_df, sub, data_retrieved,
                   ric_timeseries_df_list, sub_status>>
    /\ UNCHANGED <<dd_vars, other_vars, call_vars, ts_args>>

\* the bookkeeping of a pass of the loop of one sub-range
TSAttempt(h, o) ==
    /\ requests' = requests + 1
    /\ fails' = IF TSIsFailure(o) THEN fails + 1 ELSE fails
    /\ last_outcome' = o
    /\ last_delay' = h.delay
    /\ trace' = loop_pass(h)
    /\ retry_count' = retry_count + h.retry

\* one pass of the while loop of the current sub-range
get_stock_timeseries_attempt ==
    /\ op \in {"get_stock_timeseries", "get_index_timeseries"} /\ mod = "downloading"
    /\ UNCHANGED merged_ric_timeseries_df
    /\ pc = "loop"
    /\ loop_runs(retry_count, max_retries)
    /\ requests < ReqCap
    /\ \E o \in GetTimeseriesOutcomes(start_dates[sub], end_dates[sub]) :
          LET h == get_stock_timeseries_handle(o)
          IN  /\ TSAttempt(h, o)
              /\ IF h.act = "return"
                 THEN /\ ric_timeseries_df_list' =
                            Append(ric_timeseries_df_list, set_columns(o.df, Ric).df)
                      /\ data_retrieved' = TRUE
                      /\ pc' = "break"
                 ELSE IF h.act = "skip"
                 THEN /\ pc' = "skipped"
                      /\ UNCHANGED <<ric_timeseries_df_list, data_retrieved>>
                 ELSE /\ pc' = "loop"
                      /\ UNCHANGED <<ric_timeseries_df_list, data_retrieved>>
    /\ UNCHANGED <<ret_df, ret_err, raised, index_df, start_dates, end_dates, sub,
                   sub_status>>
    /\ UNCHANGED <<dd_vars, other_vars, call_vars, ts_args>>

\* how the retry loop of the current sub-range ended
SubStatus ==
    IF pc = "break" THEN "data" ELSE IF pc = "skipped" THEN "skip" ELSE "exhausted"

\* the step to the next sub-range: the loop variables are set anew (lines
\* 537-538), and after the last sub-range the merge follows
NextSubRange ==
    /\ sub_status' = Append(sub_status, SubStatus)
    /\ sub' = sub + 1
    /\ retry_count' = 0
    /\ data_retrieved' = FALSE
    /\ requests' = 0
    /\ fails' = 0
    /\ pc' = IF sub < Len(start_dates) THEN "loop" ELSE "merge"

\* lines 636-649: the retry loop of the sub-range is over; where it retrieved
\* no data a NaN frame is appended
get_stock_timeseries_end_subrange ==
    /\ op \in {"get_stock_timeseries", "get_index_timeseries"} /\ mod = "downloading"
    /\ UNCHANGED merged_ric_timeseries_df
    /\ \/ pc \in {"break", "skipped"}
       \/ pc = "loop" /\ ~(loop_runs(retry_count, max_retries))
    /\ ric_timeseries_df_list' =
          IF ~data_retrieved
          THEN Append(ric_timeseries_df_list,
                      nan_frame(IF isinstance_DataFrame(index_df)
                                THEN index_df.index
                                ELSE date_range(start_dates[sub], end_dates[sub]),
                                Ric))
          ELSE ric_timeseries_df_list
    /\ NextSubRange
    /\ UNCHANGED <<ret_df, ret_err, raised, last_outcome, last_delay, trace, index_df,
                   start_dates, end_dates>>
    /\ UNCHANGED <<dd_vars, other_vars, call_vars, ts_args>>

\* the table the merge of lines 651-664 leaves in index_df
merge_frames(frames, table, ric) ==
    IF Len(frames) = 0
    THEN [exc |-> NoExc, df |-> table]
    ELSE IF isinstance_DataFrame(table)
    THEN join_outer(table, concat_keep_first(frames, ric))
    ELSE [exc |-> NoExc, df |-> concat_keep_first(frames, ric)]

\* lines 651-671: merge, join and return (index_df, None)
get_stock_timeseries_merge ==
    /\ op \in {"get_stock_timeseries", "get_index_timeseries"} /\ mod = "downloading"
    /\ pc = "merge"
    /\ LET m == merge_frames(ric_timeseries_df_list, index_df, Ric)
       IN  IF m.exc # NoExc
           THEN /\ pc' = "raise" /\ raised' = m.exc
                /\ UNCHANGED <<index_df, ret_err>>
           ELSE /\ pc' = "return" /\ raised' = NoExc
                /\ index_df' = m.df
                /\ ret_err' = NoError
    /\ merged_ric_timeseries_df' =
          IF Len(ric_timeseries_df_list) = 0
          THEN merged_ric_timeseries_df
          ELSE drop_duplicated(concat(ric_timeseries_df_list, Ric))
    /\ UNCHANGED <<retry_count, ret_df, requests, fails, last_outcome, last_delay, trace,
                   start_dates, end_dates, sub, data_retrieved,
                   ric_timeseries_df_list, sub_status>>
    /\ UNCHANGED <<dd_vars, other_vars, call_vars, ts_args>>

----------------------------------------------------------------------------
(* get_stock_timeseries, downloader.py.                                    *)

\* lines 517-541: the except ek.EikonError clause
downloader_get_stock_timeseries_on_error(code) ==
    IF code = -1 THEN Handled("skip", "none", 0)
    ELSE IF code = 429 THEN Handled("retry", "request_limit", 1)
    ELSE Handled("retry", "request", 1)

\* lines 481-545: the body of the while loop, given what the request did
downloader_get_stock_timeseries_handle(o) ==
    IF o.kind = "result"
    THEN IF o.df.type = "NoneType" THEN Handled("retry", "none", 0)
         ELSE IF o.df.type # "DataFrame" THEN Handled("unexpected", "none", 0)
         ELSE IF o.df.index # {}
              THEN IF set_columns(o.df, Ric).exc # NoExc
                   THEN Handled("unexpected", "none", 0)
                   ELSE Handled("return", "none", 0)
              ELSE Handled("retry", "none", 0)
    ELSE IF o.kind = "EikonError"
    THEN downloader_get_stock_timeseries_on_error(o.code)
    ELSE Handled("unexpected", "none", 0)

\* lines 464-474: the sub-ranges are computed, the for loop is entered
downloader_get_stock_timeseries_begin ==
    /\ op = "get_stock_timeseries" /\ mod = "downloader"
    /\ UNCHANGED merged_ric_timeseries_df
    /\ pc = "call"
    /\ LET r == downloader_generate_decade_dates(ts_end, None, ts_start)
       IN  /\ start_dates' = r.start_dates
           /\ end_dates' = r.end_dates
           /\ raised' = r.exc
           /\ pc' = IF r.exc # NoExc THEN "raise"
                    ELSE IF Len(r.start_dates) = 0 THEN "merge" ELSE "loop"
    /\ UNCHANGED <<retry_count, ret_df, ret_err, requests, fails, last_outcome,
                   last_delay, trace, index_df, sub, data_retrieved,
                   ric_timeseries_df_list, sub_status>>
    /\ UNCHANGED <<dd_vars, other_vars, call_vars, ts_args>>

\* one pass of the while loop of the current sub-range; an unexpected
\* exception returns index_df as it is (line 545)
downloader_get_stock_timeseries_attempt ==
    /\ op = "get_stock_timeseries" /\ mod = "downloader"
    /\ UNCHANGED merged_ric_timeseries_df
    /\ pc = "loop"
    /\ loop_runs(retry_count, max_retries)
    /\ requests < ReqCap
    /\ \E o \in GetTimeseriesOutcomes(start_dates[sub], end_dates[sub]) :
          LET h == downloader_get_stock_timeseries_handle(o)
          IN  /\ TSAttempt(h, o)
              /\ IF h.act = "return"
                 THEN /\ ric_timeseries_df_list' =
                            Append(ric_timeseries_df_list, set_columns(o.df, Ric).df)
                      /\ data_retrieved' = TRUE
                      /\ pc' = "break"
                 ELSE /\ pc' = IF h.act = "skip" THEN "skipped"
                               ELSE IF h.act = "unexpected" THEN "return"
                               ELSE "loop"
                      /\ UNCHANGED ric_timeseries_df_list
                      /\ data_retrieved' = IF h.act = "retry" /\ h.retry = 0
                                           THEN FALSE ELSE data_retrieved
    /\ UNCHANGED <<ret_df, ret_err, raised, index_df, start_dates, end_dates, sub,
                   sub_status>>
    /\ UNCHANGED <<dd_vars, other_vars, call_vars, ts_args>>

\* lines 547-559: the retry loop of the sub-range is over; where it retrieved
\* no data a NaN frame over the days of the sub-range is appended
downloader_get_stock_timeseries_end_subrange ==
    /\ op = "get_stock_timeseries" /\ mod = "downloader"
    /\ UNCHANGED merged_ric_timeseries_df
    /\ \/ pc \in {"break", "skipped"}
       \/ pc = "loop" /\ ~(loop_runs(retry_count, max_retries))
    /\ ric_timeseries_df_list' =
          IF ~data_retrieved
          THEN Append(ric_timeseries_df_list,
                      nan_frame(date_range(start_dates[sub], end_dates[sub]), Ric))
          ELSE ric_timeseries_df_list
    /\ NextSubRange
    /\ UNCHANGED <<ret_df, ret_err, raised, last_outcome, last_delay, trace, index_df,
                   start_dates, end_dates>>
    /\ UNCHANGED <<dd_vars, other_vars, call_vars, ts_args>>

\* lines 561-586: merge, join and return index_df
downloader_get_stock_timeseries_merge ==
    /\ op = "get_stock_timeseries" /\ mod = "downloader"
    /\ pc = "merge"
    /\ LET m == merge_frames(ric_timeseries_df_list, index_df, Ric)
       IN  IF m.exc # NoExc
           THEN /\ pc' = "raise" /\ raised' = m.exc
                /\ UNCHANGED <<index_df, ret_err>>
           ELSE /\ pc' = "return" /\ raised' = NoExc
                /\ index_df' = m.df
                /\ ret_err' = NoError
    /\ merged_ric_timeseries_df' =
          IF Len(ric_timeseries_df_list) = 0
          THEN merged_ric_timeseries_df
          ELSE drop_duplicated(concat(ric_timeseries_df_list, Ric))
    /\ UNCHANGED <<retry_count, ret_df, requests, fails, last_outcome, last_delay, trace,
                   start_dates, end_dates, sub, data_retrieved,
                   ric_timeseries_df_list, sub_status>>
    /\ UNCHANGED <<dd_vars, other_vars, call_vars, ts_args>>

\* the (start_date, end_date) arguments drawn: spans of two sub-ranges whose
\* older one is short or long, a span of one sub-range, a start after the
\* end, and no start_date (num_years is not given either)
TSSpans ==
    { << <<2014, 12, 30>>, <<2024, 1, 3>> >>,
      << <<2013, 12, 31>>, <<2024, 1, 3>> >>,
      << <<2024, 1, 1>>, <<2024, 1, 3>> >>,
      << <<2024, 1, 3>>, <<2024, 1, 1>> >>,
      << None, <<2024, 1, 3>> >> }

\* the composite tables drawn for index_df: none, or the series of an index
\* over three trading days of the span
CallerTables ==
    LET days == { StrOrdinal(<<2014, 12, 31>>), StrOrdinal(<<2015, 1, 2>>),
                  StrOrdinal(<<2024, 1, 3>>) }
    IN  { NoTable,
          Frame({<<"IDX">>}, days, (<<"IDX">> :> [d \in days |-> 7])) }

\* the state of get_stock_timeseries on entry
TSLocals ==
    /\ index_df = caller_index_df
    /\ start_dates = <<>>
    /\ end_dates = <<>>
    /\ sub = 1
    /\ data_retrieved = FALSE
    /\ ric_timeseries_df_list = <<>>
    /\ merged_ric_timeseries_df = NoRows
    /\ sub_status = <<>>

\* a call of get_stock_timeseries
TSCall ==
    /\ \E span \in TSSpans : ts_start = span[1] /\ ts_end = span[2]
    /\ caller_index_df \in CallerTables
    /\ TSLocals

\* no get_stock_timeseries call is made
TSIdle ==
    /\ ts_start = None /\ ts_end = None
    /\ caller_index_df = NoTable
    /\ TSLocals

----------------------------------------------------------------------------
(* get_index_data and get_index_timeseries, downloading.py: an entry check, *)
(* a call of get_constituents_data or get_stock_timeseries, and the         *)
(* returned pair made from what that call returned.                         *)

\* lines 847-848: ric must be a str
get_index_data_check(type) == IF type # "str" THEN "TypeError" ELSE NoExc

\* lines 437-438: index_ric must not be a list
get_index_timeseries_check(type) == IF type = "list" THEN "TypeError" ELSE NoExc

\* the entry of a wrapper: its check raises, or the inner operation is called
EnterInner(exc, inner_pc) ==
    /\ outer_pc = "call"
    /\ raised' = exc
    /\ outer_pc' = IF exc # NoExc THEN "raise" ELSE "inner"
    /\ pc' = IF exc # NoExc THEN pc ELSE inner_pc
    /\ UNCHANGED <<retry_count, ret_df, ret_err, requests, fails, last_outcome,
                   last_delay, trace>>
    /\ UNCHANGED <<dd_vars, other_vars, call_args, ts_args, ts_vars>>

\* lines 847-858: the check, then the call of get_constituents_data
get_index_data_begin ==
    /\ op = "get_index_data" /\ mod = "downloading"
    /\ EnterInner(get_index_data_check(ric_type), "loop")

\* lines 859-884: the pair get_index_data makes of what the call did; an
\* exception of the call is caught and its text is the error; a table of
\* which a column holds NaN only reaches every nan_ratio
get_index_data_result(exc, df, err) ==
    LET err_ == IF exc # NoExc THEN exc ELSE err
        index_stats_df == IF exc # NoExc THEN NoneValue ELSE df
        has_high_nan_ratio ==
            IF isinstance_DataFrame(index_stats_df) /\ ~empty(index_stats_df)
            THEN index_stats_df.allnan
            ELSE TRUE
    IN  IF \/ err_ # NoError
           \/ ~isinstance_DataFrame(index_stats_df)
           \/ has_high_nan_ratio
           \/ empty(index_stats_df)
        THEN [df |-> NoneValue, err |-> err_]
        ELSE [df |-> index_stats_df, err |-> NoError]

\* get_constituents_data is over: get_index_data returns
get_index_data_end ==
    /\ op = "get_index_data" /\ mod = "downloading"
    /\ outer_pc = "inner"
    /\ pc \in {"return", "raise"}
    /\ LET r == get_index_data_result(IF pc = "raise" THEN raised ELSE NoExc,
                                      ret_df, ret_err)
       IN  /\ ret_df' = r.df
           /\ ret_err' = r.err
    /\ outer_pc' = "return"
    /\ UNCHANGED <<retry_count, pc, raised, requests, fails, last_outcome,
                   last_delay, trace>>
    /\ UNCHANGED <<dd_vars, other_vars, call_args, ts_args, ts_vars>>

\* lines 437-456: the check, then the call of get_stock_timeseries
get_index_timeseries_begin ==
    /\ op = "get_index_timeseries" /\ mod = "downloading"
    /\ EnterInner(get_index_timeseries_check(ric_type), "call")

\* lines 458-479: None where the call returned no table or an empty one,
\* the table otherwise (its column is named after the identifier already)
get_index_timeseries_result(df) ==
    IF df.type # "DataFrame" \/ df.index = {} \/ df.columns = {}
    THEN NoTable
    ELSE df

\* get_stock_timeseries is over: its exception goes on to the caller, its
\* table is returned or replaced by None
get_index_timeseries_end ==
    /\ op = "get_index_timeseries" /\ mod = "downloading"
    /\ outer_pc = "inner"
    /\ pc \in {"return", "raise"}
    /\ outer_pc' = pc
    /\ index_df' = IF pc = "return" THEN get_index_timeseries_result(index_df)
                   ELSE index_df
    /\ UNCHANGED <<start_dates, end_dates, sub, data_retrieved,
                   ric_timeseries_df_list, merged_ric_timeseries_df, sub_status>>
    /\ UNCHANGED <<dd_vars, other_vars, call_args, loop_vars, ts_args>>

----------------------------------------------------------------------------
(* The fetch calls.                                                        *)

\* the types of the identifier argument drawn for an operation: a str, and
\* what its entry check looks for
IdentifierTypes(operation) ==
    IF operation \in {"get_index_chain", "get_index_data"} THEN {"str", "int"}
    ELSE IF operation = "get_index_timeseries" THEN {"str", "list"}
    ELSE {"str"}

\* the values of self.request_delay drawn: none that is positive, and seconds
RequestDelays == {0, 2}

\* the state of the retry loop on entry (lines 257, 712)
LoopEntry ==
    /\ retry_count = 0
    /\ pc = IF op \in {"get_stock_timeseries", "get_index_chain"} THEN "call"
            ELSE IF op \in {"get_index_data", "get_index_timeseries"} THEN "wrapper"
            ELSE "loop"
    /\ ret_df = NoneValue
    /\ ret_err = NoError
    /\ raised = NoExc
    /\ requests = 0
    /\ fails = 0
    /\ last_outcome = NoRequestYet
    /\ last_delay = "none"
    /\ trace = <<>>

\* no fetch call is made
FetchIdle ==
    /\ op = "none" /\ mod = "downloading"
    /\ pre_fix = None /\ n_rics = 1 /\ max_retries = 0
    /\ ric_type = "str" /\ request_delay = 0 /\ outer_pc = "none"
    /\ LoopEntry
    /\ TSIdle

\* no generate_decade_dates call is made
DatesIdle ==
    /\ dd_module = "downloading"
    /\ dd_end = <<LastYear, 12, 31>>
    /\ dd_start = None
    /\ dd_num_years = None
    /\ dd_pc = "idle"
    /\ dd_ret = Return(<<>>, <<>>)

----------------------------------------------------------------------------
(* OSDownloader.download_bucket, downloading.py.                           *)

\* the most worker threads drawn for self.workers
MaxWorkers == 2

\* the object names of the bucket, and the listings _get_remote_files returns
ObjectNames == {"a", "b", "c"}
Listings == { <<>>, <<"a", "b">>, <<"a", "b", "c">> }

\* file contents: the content of every remote object, and another content
RemoteContent == "x"
OtherContent == "y"

\* calculate_md5 of a content, and obj_stat.etag of a remote object
calculate_md5(content) == <<"md5", content>>
etag == calculate_md5(RemoteContent)

\* the verification that takes every file that can be read for a match
_verify_file_integrity_unchecked(content, stat_ok) == content # "none" /\ stat_ok

\* lines 1276-1293: _verify_file_integrity, given whether the local file can
\* be read and whether stat_object answers; every exception gives False
_verify_file_integrity(content, stat_ok) ==
    IF content = "none" \/ ~stat_ok
    THEN FALSE
    ELSE etag = calculate_md5(content)

\* what one verification found: "equal", "differs", or "error"
Verification(content, stat_ok) ==
    IF content = "none" \/ ~stat_ok THEN "error"
    ELSE IF etag = calculate_md5(content) THEN "equal" ELSE "differs"

\* how a call of fget_object may end: the file written as it is remotely, the
\* file written with another content, S3Error, or any other exception
FgetOutcomes == {"intact", "damaged", "S3Error", "Exception"}

Idle == [task |-> "none", at |-> "idle"]

Threads == 1..workers

\* a future: not submitted, queued, running, or done with a result
NoFuture == <<"none">>
Queued == <<"queued">>
Running == <<"running">>
DoneWith(result) == <<"done", result>>
IsDone(f) == f[1] = "done"
result(f) == f[2]

\* the test of lines 1188-1189 never skipping a file
skip_never(content, stat_ok) == FALSE

\* lines 1188-1189: os.path.exists(local_file_path) and the verification
skip_file(content, stat_ok) ==
    content # "none" /\ _verify_file_integrity(content, stat_ok)

\* the lists with a path of a true result appended to both
append_outcome_both(res, remote_path, downloaded, corrupted) ==
    [downloaded_files |-> IF res THEN Append(downloaded, remote_path) ELSE downloaded,
     corrupted_files  |-> Append(corrupted, remote_path)]

\* the lists when only a true result is recorded and a false one is dropped
append_outcome_downloaded_only(res, remote_path, downloaded, corrupted) ==
    [downloaded_files |-> IF res THEN Append(downloaded, remote_path) ELSE downloaded,
     corrupted_files  |-> corrupted]

\* lines 1216-1224: the lists after the result of a future is looked at
append_outcome(res, remote_path, downloaded, corrupted) ==
    IF res
    THEN [downloaded_files |-> Append(downloaded, remote_path),
          corrupted_files  |-> corrupted]
    ELSE [downloaded_files |-> downloaded,
          corrupted_files  |-> Append(corrupted, remote_path)]

\* lines 1169-1177: no remote file, return early
download_bucket_begin ==
    /\ os_pc = "call"
    /\ os_pc' = IF listing = <<>> THEN "return" ELSE "scan"
    /\ UNCHANGED <<workers, listing, local_files, remote_files, files_to_download,
                   futures, work_queue, running, collected, downloaded_files,
                   corrupted_files, fget_calls, transfer, verified, scanned>>
    /\ UNCHANGED <<again_vars, non_os_vars>>

\* lines 1179-1200: one pass of the loop over remote_files, and the early
\* return after it when nothing is queued
download_bucket_scan ==
    /\ os_pc = "scan"
    /\ LET at == Len(remote_files) - remote_files_before + 1
           remote_path == listing[at]
           last == at = Len(listing)
       IN  /\ remote_files' = Append(remote_files, remote_path)
           /\ \E stat_ok \in BOOLEAN :
                 /\ files_to_download' =
                       IF skip_file(local_files[remote_path], stat_ok)
                       THEN files_to_download
                       ELSE Append(files_to_download, remote_path)
                 /\ scanned' = [scanned EXCEPT ![remote_path] =
                       [content |-> local_files[remote_path],
                        check |-> Verification(local_files[remote_path], stat_ok)]]
           /\ os_pc' = IF ~last THEN "scan"
                       ELSE IF files_to_download' = <<>> THEN "return"
                       ELSE "submit"
    /\ UNCHANGED <<workers, listing, local_files, futures, work_queue, running,
                   collected, downloaded_files, corrupted_files, fget_calls,
                   transfer, verified>>
    /\ UNCHANGED <<again_vars, non_os_vars>>

\* lines 1206-1211: executor.submit of the next queued file
download_bucket_submit ==
    /\ os_pc = "submit"
    /\ LET submitted == { r \in ObjectNames : futures[r] # NoFuture }
           remote == files_to_download[Cardinality(submitted) + 1]
       IN  /\ futures' = [futures EXCEPT ![remote] = Queued]
           /\ work_queue' = Append(work_queue, remote)
           /\ os_pc' = IF Cardinality(submitted) + 1 = Len(files_to_download)
                       THEN "collect" ELSE "submit"
    /\ UNCHANGED <<workers, listing, local_files, remote_files, files_to_download,
                   running, collected, downloaded_files, corrupted_files,
                   fget_calls, transfer, verified, scanned>>
    /\ UNCHANGED <<again_vars, non_os_vars>>

\* a worker thread of the pool takes the next submitted task
worker_take(w) ==
    /\ running[w] = Idle
    /\ work_queue # <<>>
    /\ running' = [running EXCEPT ![w] = [task |-> Head(work_queue), at |-> "fget"]]
    /\ work_queue' = Tail(work_queue)
    /\ futures' = [futures EXCEPT ![Head(work_queue)] = Running]
    /\ UNCHANGED <<os_pc, workers, listing, local_files, remote_files,
                   files_to_download, collected, downloaded_files, corrupted_files,
                   fget_calls, transfer, verified, scanned>>
    /\ UNCHANGED <<again_vars, non_os_vars>>

\* the result a failed fget_object leads to (lines 1268-1274)
_download_file_on_error == FALSE

\* lines 1259-1274: _download_file calls fget_object; on S3Error or any other
\* exception it logs and returns False
_download_file_fget(w) ==
    /\ running[w].at = "fget"
    /\ LET remote_path == running[w].task
       IN  \E o \in FgetOutcomes :
              /\ fget_calls' = [fget_calls EXCEPT ![remote_path] = @ + 1]
              /\ transfer' = [transfer EXCEPT ![remote_path] = o]
              /\ IF o \in {"S3Error", "Exception"}
                 THEN /\ futures' = [futures EXCEPT ![remote_path] = DoneWith(_download_file_on_error)]
                      /\ running' = [running EXCEPT ![w] = Idle]
                      /\ UNCHANGED local_files
                 ELSE /\ local_files' = [local_files EXCEPT ![remote_path] =
                             IF o = "intact" THEN RemoteContent ELSE OtherContent]
                      /\ running' = [running EXCEPT ![w].at = "verify"]
                      /\ UNCHANGED futures
    /\ UNCHANGED <<os_pc, workers, listing, remote_files, files_to_download,
                   work_queue, collected, downloaded_files, corrupted_files,
                   verified, scanned>>
    /\ UNCHANGED <<again_vars, non_os_vars>>

\* lines 1262-1266: _download_file returns the verification of the file
_download_file_verify(w) ==
    /\ running[w].at = "verify"
    /\ LET remote_path == running[w].task
       IN  \E stat_ok \in BOOLEAN :
              /\ futures' = [futures EXCEPT ![remote_path] =
                                DoneWith(_verify_file_integrity(local_files[remote_path], stat_ok))]
              /\ verified' = [verified EXCEPT ![remote_path] =
                                Verification(local_files[remote_path], stat_ok)]
    /\ running' = [running EXCEPT ![w] = Idle]
    /\ UNCHANGED <<os_pc, workers, listing, local_files, remote_files,
                   files_to_download, work_queue, collected, downloaded_files,
                   corrupted_files, fget_calls, transfer, scanned>>
    /\ UNCHANGED <<again_vars, non_os_vars>>

\* lines 1213-1224: as_completed yields a finished future; its path is
\* appended to downloaded_files or to corrupted_files; the loop ends after
\* the last future
download_bucket_collect ==
    /\ os_pc = "collect"
    /\ \E remote_path \in ObjectNames \ collected :
          /\ IsDone(futures[remote_path])
          /\ collected' = collected \cup {remote_path}
          /\ LET lists == append_outcome(result(futures[remote_path]), remote_path,
                                         downloaded_files, corrupted_files)
             IN  /\ downloaded_files' = lists.downloaded_files
                 /\ corrupted_files' = lists.corrupted_files
          /\ os_pc' = IF Cardinality(collected') = Len(files_to_download)
                      THEN "return" ELSE "collect"
    /\ UNCHANGED <<workers, listing, local_files, remote_files, files_to_download,
                   futures, work_queue, running, fget_calls, transfer, verified, scanned>>
    /\ UNCHANGED <<again_vars, non_os_vars>>

\* the local files before the call: none, one with the remote content, one
\* with another content
LocalContents == {"none", RemoteContent, OtherContent}

\* a fresh OSDownloader (lines 1079-1081) and a call of download_bucket
OSCall ==
    /\ os_pc = "call"
    /\ workers \in 1..MaxWorkers
    /\ listing \in Listings
    /\ local_files \in [ObjectNames -> LocalContents]
    /\ remote_files = <<>>
    /\ files_to_download = <<>>
    /\ futures = [r \in ObjectNames |-> NoFuture]
    /\ work_queue = <<>>
    /\ running = [w \in 1..workers |-> Idle]
    /\ collected = {}
    /\ downloaded_files = <<>>
    /\ corrupted_files = <<>>
    /\ fget_calls = [r \in ObjectNames |-> 0]
    /\ transfer = [r \in ObjectNames |-> "none"]
    /\ verified = [r \in ObjectNames |-> "none"]
    /\ scanned = [r \in ObjectNames |-> [content |-> "unseen", check |-> "none"]]
    /\ calls_made = 1
    /\ remote_files_before = 0

\* the most download_bucket calls made on one OSDownloader
MaxCalls == 2

\* download_bucket has returned and is called again on the same OSDownloader:
\* the locals of lines 1163-1211 are new, the attributes of lines 1084-1086
\* and the local files are as the call before left them
download_bucket_again ==
    /\ os_pc = "return"
    /\ calls_made < MaxCalls
    /\ calls_made' = calls_made + 1
    /\ remote_files_before' = Len(remote_files)
    /\ os_pc' = "call"
    /\ files_to_download' = <<>>
    /\ futures' = [r \in ObjectNames |-> NoFuture]
    /\ collected' = {}
    /\ fget_calls' = [r \in ObjectNames |-> 0]
    /\ transfer' = [r \in ObjectNames |-> "none"]
    /\ verified' = [r \in ObjectNames |-> "none"]
    /\ scanned' = [r \in ObjectNames |-> [content |-> "unseen", check |-> "none"]]
    /\ UNCHANGED <<workers, listing, local_files, remote_files, work_queue, running,
                   downloaded_files, corrupted_files>>
    /\ UNCHANGED non_os_vars

\* no download_bucket call is made
OSIdle ==
    /\ os_pc = "idle"
    /\ workers = 1
    /\ listing = <<>>
    /\ local_files = [r \in ObjectNames |-> "none"]
    /\ remote_files = <<>>
    /\ files_to_download = <<>>
    /\ futures = [r \in ObjectNames |-> NoFuture]
    /\ work_queue = <<>>
    /\ running = [w \in 1..1 |-> Idle]
    /\ collected = {}
    /\ downloaded_files = <<>>
    /\ corrupted_files = <<>>
    /\ fget_calls = [r \in ObjectNames |-> 0]
    /\ transfer = [r \in ObjectNames |-> "none"]
    /\ verified = [r \in ObjectNames |-> "none"]
    /\ scanned = [r \in ObjectNames |-> [content |-> "unseen", check |-> "none"]]
    /\ calls_made = 0
    /\ remote_files_before = 0

----------------------------------------------------------------------------
(* get_additional_data, downloader.py, and the chunk loop of               *)
(* example_usage/download_constituents_stats.py.                           *)

\* the number of chunks split_list makes of the identifiers
NumChunks == 3

\* _empty_df_data(rics, fields), a method
downloader_empty_df_data(rics, fields) ==
    [exc |-> NoExc, df |-> DataFrame(<< <<"RIC">> >> \o fields, 1, TRUE)]

\* lines 693-718: the except ek.EikonError clause
get_additional_data_on_error(code) ==
    IF code = -1 THEN Handled("skip", "none", 0)
    ELSE IF code = 429 THEN Handled("retry", "request_limit", 1)
    ELSE Handled("retry", "request", 1)

\* lines 633-726: the body of the while loop, given what the request did
get_additional_data_handle(o) ==
    IF o.kind = "result"
    THEN IF o.err # <<>> THEN Handled("skip", "none", 0)
         ELSE IF o.df.type = "NoneType" THEN Handled("retry", "none", 1)
         ELSE IF ~isinstance_DataFrame(o.df) THEN Handled("unexpected", "none", 0)
         ELSE IF ~empty(o.df) /\ o.df.nrows > 1 THEN Handled("return", "none", 0)
         ELSE Handled("retry", "none", 1)
    ELSE IF o.kind = "EikonError"
    THEN get_additional_data_on_error(o.code)
    ELSE Handled("unexpected", "none", 0)

\* one pass of the while loop of get_additional_data
get_additional_data_attempt ==
    /\ op = "get_additional_data" /\ mod = "downloader"
    /\ batch_pc = "chunks"
    /\ pc = "loop"
    /\ loop_runs(retry_count, max_retries)
    /\ requests < ReqCap
    /\ \E o \in GetDataOutcomes :
          LET h == get_additional_data_handle(o)
          IN  /\ Attempt(h, o)
              /\ Finish(h, o, downloader_empty_df_data(Rics, Fields), ErrorMessage(h, o))
    /\ UNCHANGED <<call_vars, batch_vars, non_batch_vars>>

\* lines 728-732: the loop ended without a return
get_additional_data_exhausted ==
    /\ op = "get_additional_data" /\ mod = "downloader"
    /\ batch_pc = "chunks"
    /\ pc = "loop"
    /\ ~(loop_runs(retry_count, max_retries))
    /\ Exhausted(downloader_empty_df_data(Rics, Fields))
    /\ UNCHANGED <<call_vars, batch_vars, non_batch_vars>>

\* the rows a chunk's fetch returned as data (none for a failed fetch)
rows_fetched == IF ret_err = NoError THEN ret_df.nrows ELSE 0

\* line 111: if additional_stock_data_df_ is not None
collect(df, err) == df.type # "NoneType"

\* lines 98-115 of the script: the returned pair of a chunk is looked at,
\* and the loop goes on to the next chunk's call
chunk_loop_collect ==
    /\ op = "get_additional_data"
    /\ batch_pc = "chunks"
    /\ pc = "return"
    /\ additional_stock_data_df_list' =
          IF collect(ret_df, ret_err)
          THEN Append(additional_stock_data_df_list, ret_df)
          ELSE additional_stock_data_df_list
    /\ chunk_status' = Append(chunk_status,
          [status |-> IF ret_err = NoError THEN "data" ELSE "failed",
           nrows |-> rows_fetched])
    /\ part' = part + 1
    /\ batch_pc' = IF part < NumChunks THEN "chunks" ELSE "merge"
    /\ retry_count' = 0
    /\ pc' = IF part < NumChunks THEN "loop" ELSE "return"
    /\ requests' = 0
    /\ fails' = 0
    /\ UNCHANGED <<ret_df, ret_err, raised, last_outcome, last_delay, trace, merged_df>>
    /\ UNCHANGED <<call_vars, non_batch_vars>>

RECURSIVE sum_nrows(_)
sum_nrows(tables) ==
    IF tables = <<>> THEN 0 ELSE Head(tables).nrows + sum_nrows(Tail(tables))

\* pd.concat(tables, axis=0) of snapshot tables: the rows of all of them
concat_tables(tables) ==
    DataFrame(Head(tables).columns, sum_nrows(tables),
              \A i \in 1..Len(tables) : tables[i].allnan)

\* lines 117-125 of the script: the merge of the collected tables
chunk_loop_merge ==
    /\ op = "get_additional_data"
    /\ batch_pc = "merge"
    /\ IF additional_stock_data_df_list # <<>>
       THEN /\ merged_df' = concat_tables(additional_stock_data_df_list)
            /\ batch_pc' = "merged"
       ELSE /\ batch_pc' = "continue"
            /\ UNCHANGED merged_df
    /\ UNCHANGED <<part, additional_stock_data_df_list, chunk_status>>
    /\ UNCHANGED <<call_vars, loop_vars, non_batch_vars>>

\* the chunk loop for one target date, at the call for its first chunk
BatchCall ==
    /\ batch_pc = "chunks"
    /\ part = 1
    /\ additional_stock_data_df_list = <<>>
    /\ chunk_status = <<>>
    /\ merged_df = NoneValue

\* no chunk loop runs
BatchIdle ==
    /\ batch_pc = "idle"
    /\ part = 1
    /\ additional_stock_data_df_list = <<>>
    /\ chunk_status = <<>>
    /\ merged_df = NoneValue

----------------------------------------------------------------------------
(* generate_target_dates, both modules.                                    *)

\* line 115 of downloading.py: num_years must be below this
YearsLimit == 100

\* a comparison of the frequency as it was written
lower_unchanged(frequency) == frequency

\* str.lower() on the frequencies drawn
lower(frequency) ==
    IF frequency = "Quarters" THEN "quarters"
    ELSE IF frequency = "M" THEN "m"
    ELSE frequency

\* freq_map of downloading.py: the pandas offset alias of a frequency
freq_map ==
    [months |-> "M", quarters |-> "Q", years |-> "Y", m |-> "M", q |-> "Q", y |-> "Y"]

\* freq_map of downloader.py
downloader_freq_map == [months |-> "M", quarters |-> "Q", years |-> "Y"]

\* the dates per year of the table of every frequency at twelve a year
periods_monthly(num_years, frequency) == num_years * 12

\* lines 127-131: num_years times 12, 4 or 1
periods(num_years, frequency) ==
    num_years * (IF frequency \in {"months", "m"} THEN 12
                 ELSE IF frequency \in {"quarters", "q"} THEN 4
                 ELSE 1)

\* the months between two dates of the offset: month end, quarter end
\* (December anchored), year end
months_of(freq) == IF freq = "M" THEN 1 ELSE IF freq = "Q" THEN 3 ELSE 12

\* months are counted from year 0: the count of a (year, month)
month_count(y, m) == y * 12 + (m - 1)

\* the last day of the month of a count, as a string
month_end(mc) ==
    LET y == mc \div 12
        m == (mc % 12) + 1
    IN  <<y, m, DaysInMonth(y, m)>>

\* offset.is_on_offset(date): the date is the last day of a period
is_on_offset(date, freq) ==
    /\ date[3] = DaysInMonth(date[1], date[2])
    /\ date[2] % months_of(freq) = 0

\* the anchoring that takes the end of the month of the date
rollback_to_own_month(date, freq) == month_count(date[1], date[2])

\* offset.rollback(date): the month count of the last date of the offset
\* that is not after date
rollback(date, freq) ==
    LET mc == month_count(date[1], date[2])
    IN  IF is_on_offset(date, freq) THEN mc
        ELSE CHOOSE j \in (mc - 12)..(mc - 1) :
                /\ ((j % 12) + 1) % months_of(freq) = 0
                /\ \A k \in (j + 1)..(mc - 1) : ((k % 12) + 1) % months_of(freq) # 0

\* pd.date_range(end=end_date, periods=periods, freq=freq) formatted with
\* "%Y-%m-%d": periods dates of the offset, the last one not after end_date;
\* pandas raises ValueError for a negative periods
date_range_end(end_date, n, freq) ==
    IF n < 0
    THEN [exc |-> "ValueError", dates |-> <<>>]
    ELSE LET last == rollback(end_date, freq)
         IN  [exc |-> NoExc,
              dates |-> [i \in 1..n |-> month_end(last - (n - i) * months_of(freq))]]

\* pd.to_datetime(end_date) of line 134, and the parsing of end= by
\* pd.date_range: a string that names no calendar day raises ValueError
to_datetime_ok(end_date) == IsValidDate(end_date[1], end_date[2], end_date[3])

\* the list as pd.date_range produced it
reversed_not(seq) == seq

\* target_dates[::-1]
reversed(seq) == [i \in 1..Len(seq) |-> seq[Len(seq) + 1 - i]]

\* lines 106-145 of downloading.py
generate_target_dates(end_date, num_years, frequency, reverse) ==
    IF num_years <= 0 \/ num_years >= YearsLimit
    THEN [exc |-> "ValueError", dates |-> <<>>]
    ELSE IF lower(frequency) \notin DOMAIN freq_map
    THEN [exc |-> "ValueError", dates |-> <<>>]
    ELSE IF ~to_datetime_ok(end_date)
    THEN [exc |-> "ValueError", dates |-> <<>>]
    ELSE LET r == date_range_end(end_date, periods(num_years, lower(frequency)),
                                 freq_map[lower(frequency)])
         IN  IF reverse /\ r.exc = NoExc
             THEN [r EXCEPT !.dates = reversed(r.dates)]
             ELSE r

\* lines 73-93 of downloader.py
downloader_generate_target_dates(end_date, num_years, frequency, reserve) ==
    IF frequency \notin DOMAIN downloader_freq_map
    THEN [exc |-> "ValueError", dates |-> <<>>]
    ELSE IF ~to_datetime_ok(end_date)
    THEN [exc |-> "ValueError", dates |-> <<>>]
    ELSE LET r == date_range_end(end_date, periods(num_years, frequency),
                                 downloader_freq_map[frequency])
         IN  IF reserve /\ r.exc = NoExc
             THEN [r EXCEPT !.dates = reversed(r.dates)]
             ELSE r

\* the frequencies drawn: the names, the short names, other spellings, and
\* a name that is not a frequency
Frequencies == {"months", "quarters", "years", "m", "q", "y", "Quarters", "M", "weeks"}

\* the end dates drawn: ends of a year, a quarter and a month, days within
\* a month, and a string that names no calendar day
TargetEndDates ==
    { <<2024, 12, 31>>, <<2024, 9, 30>>, <<2024, 2, 29>>, <<2024, 12, 15>>, <<2023, 1, 1>>,
      <<2023, 2, 30>> }

TargetsCall ==
    /\ gt_module \in Modules
    /\ gt_end \in TargetEndDates
    /\ gt_num_years \in -1..YearsLimit
    /\ gt_frequency \in Frequencies
    /\ gt_reverse \in BOOLEAN
    /\ gt_pc = "call"
    /\ gt_ret = [exc |-> NoExc, dates |-> <<>>]

\* no generate_target_dates call is made
TargetsIdle ==
    /\ gt_module = "downloading"
    /\ gt_end = <<LastYear, 12, 31>>
    /\ gt_num_years = 1
    /\ gt_frequency = "years"
    /\ gt_reverse = TRUE
    /\ gt_pc = "idle"
    /\ gt_ret = [exc |-> NoExc, dates |-> <<>>]

\* one call of generate_target_dates(end_date, num_years, frequency, reverse)
CallGenerateTargetDates ==
    /\ gt_pc = "call"
    /\ LET r == IF gt_module = "downloading"
                THEN generate_target_dates(gt_end, gt_num_years, gt_frequency, gt_reverse)
                ELSE downloader_generate_target_dates(gt_end, gt_num_years,
                                                      gt_frequency, gt_reverse)
       IN  /\ gt_ret' = r
           /\ gt_pc' = IF r.exc = NoExc THEN "return" ELSE "raise"
    /\ UNCHANGED <<gt_module, gt_end, gt_num_years, gt_frequency, gt_reverse>>
    /\ UNCHANGED <<dd_vars, fetch_vars, os_vars, batch_vars, side_vars, split_vars>>

----------------------------------------------------------------------------
(* The retry loops of get_index_chain, get_stock_timeseries and            *)
(* get_constituents_data of downloading.py, each at the same pass, with    *)
(* the remote request of each raising the same fault.                      *)

\* the operations with a retry loop
LoopOps == {"get_index_chain", "get_stock_timeseries", "get_constituents_data"}

\* what a remote request may raise
RaisedFaults == { EikonError(c) : c \in EikonCodes } \cup { OtherException }

\* the branch the loop body of an operation takes for what its request did
loop_body(operation, o) ==
    IF operation = "get_index_chain" THEN get_index_chain_handle(o)
    ELSE IF operation = "get_stock_timeseries" THEN get_stock_timeseries_handle(o)
    ELSE get_constituents_data_handle(o, 1)

\* the while condition of an operation's loop holds
side_running(operation) ==
    side_pc[operation] = "loop" /\ side_retry[operation] < MaxRetriesBound

\* one pass of every loop that is still running, all requests raising o
side_by_side_pass ==
    /\ \E operation \in LoopOps : side_running(operation)
    /\ \E o \in RaisedFaults :
          /\ side_faults' = Append(side_faults, o)
          /\ side_pc' = [f \in LoopOps |->
                IF side_running(f) /\ loop_body(f, o).act # "retry"
                THEN "ended" ELSE side_pc[f]]
          /\ side_retry' = [f \in LoopOps |->
                IF side_running(f)
                THEN side_retry[f] + loop_body(f, o).retry ELSE side_retry[f]]
          /\ side_delay' = [f \in LoopOps |->
                IF side_running(f) THEN loop_body(f, o).delay ELSE side_delay[f]]
    /\ UNCHANGED <<dd_vars, fetch_vars, os_vars, batch_vars, gt_vars, split_vars>>

\* the three loops on entry: retry_count = 0 with max_retries = MaxRetriesBound
SideCall ==
    /\ side_pc = [f \in LoopOps |-> "loop"]
    /\ side_retry = [f \in LoopOps |-> 0]
    /\ side_delay = [f \in LoopOps |-> "none"]
    /\ side_faults = <<>>

\* the loops are not run side by side
SideIdle ==
    /\ side_pc = [f \in LoopOps |-> "idle"]
    /\ side_retry = [f \in LoopOps |-> 0]
    /\ side_delay = [f \in LoopOps |-> "none"]
    /\ side_faults = <<>>

----------------------------------------------------------------------------
(* DataProcessor.split_list, processing/processor.py.                      *)

\* the longest list drawn, and the largest chunk_size
MaxLen == 4
MaxChunkSize == 5

\* the elements of the lists drawn; a list may hold an element twice
Elements == {"r1", "r2", "r3"}

\* the lists of up to n elements
Lists(n) == UNION { [1..k -> Elements] : k \in 0..n }

Min(a, b) == IF a < b THEN a ELSE b

\* the start indices taken one apart, whatever the step
range_step_one(stop, step) == [k \in 1..stop |-> k - 1]

\* range(0, stop, step) for a step that is not 0: 0, step, 2 * step, ...
\* below stop; empty for a negative step
range(stop, step) ==
    IF step < 0 \/ stop <= 0 THEN <<>>
    ELSE [k \in 1..((stop + step - 1) \div step) |-> (k - 1) * step]

\* lst[i:j] for 0 <= i <= j: the elements at the 0-based positions i..j-1
\* that exist
slice(lst, i, j) == SubSeq(lst, i + 1, Min(j, Len(lst)))

\* line 204: [lst[i:i + chunk_size] for i in range(0, len(lst), chunk_size)];
\* range raises ValueError for a step of 0
split_list(lst, chunk_size) ==
    IF chunk_size = 0
    THEN [exc |-> "ValueError", chunks |-> <<>>]
    ELSE LET starts == range(Len(lst), chunk_size)
         IN  [exc |-> NoExc,
              chunks |-> [k \in 1..Len(starts) |->
                            slice(lst, starts[k], starts[k] + chunk_size)]]

\* one call of split_list(lst, chunk_size)
CallSplitList ==
    /\ sl_pc = "call"
    /\ LET r == split_list(sl_lst, sl_chunk_size)
       IN  /\ sl_ret' = r
           /\ sl_pc' = IF r.exc = NoExc THEN "return" ELSE "raise"
    /\ UNCHANGED <<sl_lst, sl_chunk_size>>
    /\ UNCHANGED <<dd_vars, fetch_vars, os_vars, batch_vars, gt_vars, side_vars>>

\* the arguments drawn: every list of up to MaxLen elements, and chunk sizes
\* from -1 to MaxChunkSize
SplitCall ==
    /\ sl_lst \in Lists(MaxLen)
    /\ sl_chunk_size \in -1..MaxChunkSize
    /\ sl_pc = "call"
    /\ sl_ret = [exc |-> NoExc, chunks |-> <<>>]

\* no split_list call is made
SplitIdle ==
    /\ sl_lst = <<>>
    /\ sl_chunk_size = 1
    /\ sl_pc = "idle"
    /\ sl_ret = [exc |-> NoExc, chunks |-> <<>>]

\* the specification of split_list
SplitInit ==
    DatesIdle /\ FetchIdle /\ OSIdle /\ BatchIdle /\ TargetsIdle /\ SideIdle /\ SplitCall

SplitNext == CallSplitList

SpecSplit == SplitInit /\ [][SplitNext]_vars

\* the specification of download_bucket
OSInit ==
    DatesIdle /\ FetchIdle /\ BatchIdle /\ TargetsIdle /\ SideIdle /\ SplitIdle /\ OSCall

OSNext ==
    \/ download_bucket_begin
    \/ download_bucket_scan
    \/ download_bucket_submit
    \/ \E w \in Threads : worker_take(w)
    \/ \E w \in Threads : _download_file_fget(w)
    \/ \E w \in Threads : _download_file_verify(w)
    \/ download_bucket_collect

SpecOS == OSInit /\ [][OSNext]_vars

\* the specification of download_bucket called again and again on one
\* OSDownloader with one worker thread, in a directory that holds no file
\* before the first call
OSAgainInit ==
    /\ OSInit
    /\ workers = 1
    /\ local_files = [r \in ObjectNames |-> "none"]

OSAgainNext == OSNext \/ download_bucket_again

SpecOSAgain == OSAgainInit /\ [][OSAgainNext]_vars

\* no call of the operations other than the date and fetch functions
OtherIdle == OSIdle /\ BatchIdle /\ TargetsIdle /\ SideIdle /\ SplitIdle

\* the specification of generate_target_dates
TargetsInit ==
    DatesIdle /\ FetchIdle /\ OSIdle /\ BatchIdle /\ SideIdle /\ SplitIdle /\ TargetsCall

TargetsNext == CallGenerateTargetDates

SpecTargets == TargetsInit /\ [][TargetsNext]_vars

\* the specification of the three loops side by side
SideInit ==
    DatesIdle /\ FetchIdle /\ OSIdle /\ BatchIdle /\ TargetsIdle /\ SplitIdle /\ SideCall

SideNext == side_by_side_pass

SpecSide == SideInit /\ [][SideNext]_vars


----------------------------------------------------------------------------
(* The calls of generate_decade_dates.                                     *)

\* the days of a year the date arguments are drawn from
InputDays(y) ==
    {<<1, 1>>, <<1, 2>>, <<6, 15>>, <<12, 30>>, <<12, 31>>}
        \cup (IF IsLeap(y) THEN {<<2, 29>>} ELSE {<<2, 28>>})

InputDates ==
    UNION { { <<y, md[1], md[2]>> : md \in InputDays(y) } : y \in FirstYear..LastYear }

DatesInit ==
    /\ dd_module \in Modules
    /\ dd_end \in InputDates
    /\ \/ dd_start \in InputDates /\ dd_num_years \in {None, Some(1)}
       \/ dd_start = None /\ dd_num_years \in {None} \cup {Some(n) : n \in 0..MaxNumYears}
    /\ dd_pc = "call"
    /\ dd_ret = Return(<<>>, <<>>)
    /\ FetchIdle
    /\ OtherIdle

\* one call of generate_decade_dates(end_date, num_years, start_date)
CallGenerateDecadeDates ==
    /\ dd_pc = "call"
    /\ LET r == IF dd_module = "downloading"
                THEN generate_decade_dates(dd_end, dd_num_years, dd_start)
                ELSE downloader_generate_decade_dates(dd_end, dd_num_years, dd_start)
       IN  /\ dd_ret' = r
           /\ dd_pc' = IF r.exc = NoExc THEN "return" ELSE "raise"
    /\ UNCHANGED <<dd_module, dd_end, dd_start, dd_num_years>>
    /\ UNCHANGED <<fetch_vars, other_vars>>

DatesNext == CallGenerateDecadeDates

SpecDates == DatesInit /\ [][DatesNext]_vars

----------------------------------------------------------------------------
(* The specification of the fetch calls.                                   *)

Init ==
    /\ DatesIdle
    /\ OtherIdle
    /\ \/ /\ op = "get_index_chain" /\ mod \in Modules
          /\ pre_fix \in {None, <<"0#.">>} /\ n_rics = 1
       \/ /\ op = "get_constituents_data" /\ mod = "downloading"
          /\ pre_fix = None /\ n_rics \in {1, 12}
       \/ /\ op = "get_stock_timeseries" /\ mod \in Modules
          /\ pre_fix = None /\ n_rics = 1
       \/ /\ op \in {"get_index_data", "get_index_timeseries"} /\ mod = "downloading"
          /\ pre_fix = None /\ n_rics = 1
    /\ max_retries \in -1..MaxRetriesBound
    /\ ric_type \in IdentifierTypes(op)
    /\ request_delay \in RequestDelays
    /\ outer_pc = IF op \in {"get_index_data", "get_index_timeseries"} THEN "call"
                  ELSE "none"
    /\ LoopEntry
    /\ IF op = "get_stock_timeseries" THEN TSCall
       ELSE IF op = "get_index_timeseries" THEN TSCall /\ caller_index_df = NoTable
       ELSE TSIdle

Next ==
    \/ get_index_chain_begin
    \/ get_index_chain_attempt
    \/ get_index_chain_exhausted
    \/ downloader_get_index_chain_begin
    \/ downloader_get_index_chain_attempt
    \/ downloader_get_index_chain_exhausted
    \/ get_constituents_data_attempt
    \/ get_constituents_data_exhausted
    \/ get_stock_timeseries_begin
    \/ get_stock_timeseries_attempt
    \/ get_stock_timeseries_end_subrange
    \/ get_stock_timeseries_merge
    \/ downloader_get_stock_timeseries_begin
    \/ downloader_get_stock_timeseries_attempt
    \/ downloader_get_stock_timeseries_end_subrange
    \/ downloader_get_stock_timeseries_merge
    \/ get_index_data_begin
    \/ get_index_data_end
    \/ get_index_timeseries_begin
    \/ get_index_timeseries_end

Spec == Init /\ [][Next]_vars

\* the fetch path is synchronous and single-threaded: a call that can take a
\* step takes it
FairSpec == Spec /\ WF_vars(Next)

----------------------------------------------------------------------------
(* The specification of the chunk loop.                                    *)

BatchInit ==
    /\ DatesIdle
    /\ OSIdle
    /\ TargetsIdle
    /\ SideIdle
    /\ SplitIdle
    /\ op = "get_additional_data" /\ mod = "downloader"
    /\ pre_fix = None /\ n_rics = 1
    /\ max_retries \in 1..2
    /\ ric_type = "str" /\ request_delay \in RequestDelays /\ outer_pc = "none"
    /\ LoopEntry
    /\ TSIdle
    /\ BatchCall

BatchNext ==
    \/ get_additional_data_attempt
    \/ get_additional_data_exhausted
    \/ chunk_loop_collect
    \/ chunk_loop_merge

SpecBatch == BatchInit /\ [][BatchNext]_vars

----------------------------------------------------------------------------
(* Properties of generate_decade_dates.                                    *)

\* the call was made with an explicit start_date that is not after end_date
ValidSpan ==
    /\ dd_start # None
    /\ StrOrdinal(dd_start) <= StrOrdinal(dd_end)

\* the number of returned pairs that hold calendar day d (an ordinal)
PairsHolding(d) ==
    Cardinality({ i \in 1..Len(dd_ret.start_dates) :
                    /\ i <= Len(dd_ret.end_dates)
                    /\ StrOrdinal(dd_ret.start_dates[i]) <= d
                    /\ d <= StrOrdinal(dd_ret.end_dates[i]) })

\* C9: for every start_date <= end_date, generate_decade_dates of
\* downloading.py returns pairs ordered most-recent first: the first pair ends
\* on end_date, the last pair starts on start_date, each older pair ends
\* exactly one day before the next-newer pair starts, every pair has
\* sub_start <= sub_end and lies within 10 calendar years.
C9_DecadePartition ==
    (dd_module = "downloading" /\ dd_pc # "call" /\ ValidSpan) =>
        LET sds == dd_ret.start_dates
            eds == dd_ret.end_dates
            n   == Len(sds)
        IN  /\ dd_pc = "return"
            /\ n >= 1
            /\ Len(eds) = n
            /\ eds[1] = dd_end
            /\ sds[n] = dd_start
            /\ \A i \in 1..n :
                  /\ StrOrdinal(sds[i]) <= StrOrdinal(eds[i])
                  /\ eds[i][1] - sds[i][1] + 1 <= 10
            /\ \A i \in 1..(n - 1) :
                  StrOrdinal(eds[i + 1]) + 1 = StrOrdinal(sds[i])

\* a span of downloading.py that is cut into three windows, the oldest of
\* them clipped to a start_date inside a year
C9_Witness ==
    /\ dd_module = "downloading"
    /\ dd_pc = "return"
    /\ ValidSpan
    /\ Len(dd_ret.start_dates) = 3
    /\ dd_start[2] = 6
    /\ dd_ret.start_dates[3] = dd_start

\* C10: for every start_date <= end_date, the pairs generate_decade_dates of
\* downloader.py returns span exactly [start_date, end_date]: every calendar
\* day of the span lies in exactly one pair, and the oldest pair does not
\* begin before start_date.
C10_DownloaderExactSpan ==
    (dd_module = "downloader" /\ dd_pc # "call" /\ ValidSpan) =>
        LET sds == dd_ret.start_dates
            n   == Len(sds)
        IN  /\ dd_pc = "return"
            /\ n >= 1
            /\ StrOrdinal(sds[n]) >= StrOrdinal(dd_start)
            /\ \A d \in StrOrdinal(dd_start)..StrOrdinal(dd_end) : PairsHolding(d) = 1

----------------------------------------------------------------------------
(* Properties of the retry loops.                                          *)

FetchOps == {"get_index_chain", "get_stock_timeseries", "get_constituents_data"}

\* the call is over
Done == pc \in {"return", "raise"}

\* the latest request raised the Eikon fault of code -1
TerminalFault == last_outcome.kind = "EikonError" /\ last_outcome.code = -1

\* a step that issues a remote request
Requests == requests' = requests + 1

\* the one-row all-NaN placeholder of get_index_chain
IsChainPlaceholder(df) ==
    /\ df.type = "DataFrame"
    /\ df.nrows = 1
    /\ df.allnan
    /\ df.columns = << prefixed(pre_fix, <<"SPX">>) >>

\* within its budget: at most max_retries requests, none for a budget below 0
WithinBudget ==
    /\ max_retries >= 0 => requests <= max_retries
    /\ max_retries < 0 => requests = 0

\* C1: in downloading.py, whatever the remote source does, get_index_chain
\* and get_constituents_data issue at most max_retries requests per call and
\* get_stock_timeseries at most max_retries per sub-range; every attempt that
\* neither succeeds nor ends the fetch adds exactly one to the retry count;
\* and every call finishes.
C1_BoundedRequests ==
    /\ [](mod = "downloading" /\ op \in FetchOps => WithinBudget)
    /\ [][(mod = "downloading" /\ op \in FetchOps /\ Requests /\ pc' = "loop")
            => retry_count' = retry_count + 1]_vars
    /\ (mod = "downloading" /\ op \in FetchOps) => <>Done

\* get_stock_timeseries of downloading.py has used up the budget of its
\* first sub-range and of its second
C1_Witness ==
    /\ mod = "downloading" /\ op = "get_stock_timeseries"
    /\ max_retries = 2
    /\ sub = 2
    /\ sub_status = <<"exhausted">>
    /\ requests = max_retries
    /\ retry_count = max_retries

\* C2: in downloader.py, the retry loop of a sub-range of
\* get_stock_timeseries ends after at most max_retries remote requests,
\* whatever the remote source returns (also an empty or None result).
C2_DownloaderLoopEnds ==
    (mod = "downloader" /\ op = "get_stock_timeseries") => WithinBudget

\* C3: in downloading.py no failure of a remote request escapes a fetch
\* operation as an exception: the only exception of a call is the one of an
\* invalid date range, raised before any request; get_constituents_data
\* returns (placeholder, "Error: -1") on a fault of code -1 and
\* (placeholder, "Max retries exceeded.") when the budget is used up.
C3_NoEscape ==
    (mod = "downloading" /\ op \in FetchOps /\ ric_type = "str") =>
        /\ pc = "raise" =>
              /\ op = "get_stock_timeseries"
              /\ raised = "ValueError"
              /\ start_dates = <<>>
        /\ (op = "get_constituents_data" /\ TerminalFault) =>
              pc = "return" /\ ret_err = "Error: -1"

\* C4: for get_index_chain of downloading.py called with a str identifier,
\* and a remote source that fails
\* N times and then returns a non-empty table: with max_retries > N the call
\* returns that table and no error after exactly N + 1 requests, with
\* max_retries <= N the one-row NaN placeholder and "Max retries exceeded."
\* after exactly max_retries requests (fails counts the failures so far).
C4_FailsThenSucceeds ==
    (mod = "downloading" /\ op = "get_index_chain" /\ ric_type = "str"
     /\ ~TerminalFault) =>
        /\ pc # "raise"
        /\ pc = "loop" => fails = requests
        /\ pc = "return" =>
              \/ /\ ret_err = NoError
                 /\ ret_df = last_outcome.df
                 /\ isinstance_DataFrame(ret_df) /\ ~empty(ret_df)
                 /\ requests = fails + 1
                 /\ max_retries > fails
              \/ /\ ret_err = "Max retries exceeded."
                 /\ IsChainPlaceholder(ret_df)
                 /\ fails = requests
                 /\ WithinBudget
                 /\ max_retries >= 0 => requests = max_retries

\* get_index_chain of downloading.py returns the table of its third request
C4_Witness ==
    /\ mod = "downloading" /\ op = "get_index_chain"
    /\ pc = "return"
    /\ max_retries = 3
    /\ fails = 2
    /\ requests = 3
    /\ ret_err = NoError

\* C5: in get_index_chain of both modules, a request that raises the Eikon
\* fault of code -1 ends the call at once with the placeholder and an error
\* message: no backoff delay, no further request, and the retry count is
\* left as it was, whatever max_retries and the earlier failures.
C5_TerminalSkip ==
    /\ []((op = "get_index_chain" /\ TerminalFault) =>
            /\ pc = "return"
            /\ ret_err # NoError
            /\ IsChainPlaceholder(ret_df)
            /\ last_delay = "none"
            /\ requests = fails + 1)
    /\ [][(op = "get_index_chain" /\ Requests
            /\ last_outcome'.kind = "EikonError" /\ last_outcome'.code = -1)
          => (retry_count' = retry_count /\ pc' = "return")]_vars
    /\ [][(op = "get_index_chain" /\ pc = "return") => requests' = requests]_vars

\* get_index_chain of downloader.py is skipped on its third request
C5_Witness ==
    /\ mod = "downloader" /\ op = "get_index_chain"
    /\ TerminalFault
    /\ pc = "return"
    /\ fails = 2
    /\ retry_count = 2
    /\ max_retries = 3

----------------------------------------------------------------------------
(* Properties of get_stock_timeseries.                                     *)

\* the call of get_stock_timeseries has returned its table
TSReturned == op = "get_stock_timeseries" /\ pc = "return"

\* the positions of the sub-ranges that ended
Ended == 1..Len(sub_status)

\* C6: get_stock_timeseries of downloading.py loses no fetched data: every
\* (date, value) row of a sub-range that succeeded is in the identifier's
\* column of the returned table with that value, unless a successful
\* sub-range processed earlier returned a row of the same date; with or
\* without a composite table passed in.
C6_NoDataLoss ==
    (/\ TSReturned /\ mod = "downloading"
     /\ Len(sub_status) = Len(ric_timeseries_df_list)
     /\ \A i \in Ended : sub_status[i] \in {"data", "exhausted"}) =>
        \A i \in Ended :
            sub_status[i] = "data" =>
                \A d \in DOMAIN ric_timeseries_df_list[i].cells[Ric] :
                    \/ \E j \in 1..(i - 1) :
                          /\ sub_status[j] = "data"
                          /\ d \in ric_timeseries_df_list[j].index
                    \/ /\ d \in index_df.index
                       /\ Cell(index_df, Ric, d) = ric_timeseries_df_list[i].cells[Ric][d]

\* C7: the NaN placeholder of a sub-range that yielded no data has exactly
\* one row per calendar day of [sub_start, sub_end] and no other row, with
\* or without a composite table passed in.
C7_PlaceholderSpan ==
    (op = "get_stock_timeseries" /\ Len(sub_status) = Len(ric_timeseries_df_list)) =>
        \A i \in Ended :
            sub_status[i] # "data" =>
                /\ ric_timeseries_df_list[i].index = date_range(start_dates[i], end_dates[i])
                /\ ric_timeseries_df_list[i].cells[Ric] = <<>>

\* C8: when a sub-range of get_stock_timeseries (downloading.py) ends without
\* data because its retry budget is used up, the call returns a non-None
\* error; the returned error is None only if every sub-range was fetched.
C8_ExhaustionReported ==
    (TSReturned /\ mod = "downloading") =>
        /\ (\E i \in Ended : sub_status[i] = "exhausted") => ret_err # NoError
        /\ ret_err = NoError => \A i \in Ended : sub_status[i] = "data"

----------------------------------------------------------------------------
(* Properties of the resolution of the start date.                         *)

\* generate_decade_dates of downloading.py has been called and is over
DecadeCallOver == dd_module = "downloading" /\ dd_pc # "call"

\* the start of the oldest sub-range returned
OldestStart == dd_ret.start_dates[Len(dd_ret.start_dates)]

----------------------------------------------------------------------------
(* Properties of the merge of get_stock_timeseries.                        *)

\* the call has merged the frames of all its sub-ranges and returned
MergedAndReturned ==
    /\ TSReturned
    /\ Len(ric_timeseries_df_list) > 0
    /\ Len(sub_status) = Len(start_dates)

\* the dates of the frames of the list
ListDates == UNION { ric_timeseries_df_list[i].index : i \in 1..Len(ric_timeseries_df_list) }

\* C12: after get_stock_timeseries (both modules) merges the per-sub-range
\* series, the identifier's series has exactly one row per date of the
\* sub-range results, and for a date that several results share the row
\* holds the value of the sub-range processed first.
C12_OneRowPerDate ==
    MergedAndReturned =>
        /\ merged_ric_timeseries_df.index = ListDates
        /\ \A d \in ListDates :
              LET first == ric_timeseries_df_list[first_with(ric_timeseries_df_list, d)]
              IN  /\ RowsOf(merged_ric_timeseries_df, d) = << Cell(first, Ric, d) >>
                  /\ Cell(index_df, Ric, d) = Cell(first, Ric, d)

\* two sub-ranges returned different values for one date and were merged
C12_Witness ==
    /\ MergedAndReturned
    /\ sub_status = <<"data", "data">>
    /\ \E d \in ric_timeseries_df_list[1].index \cap ric_timeseries_df_list[2].index :
          Cell(ric_timeseries_df_list[1], Ric, d) # Cell(ric_timeseries_df_list[2], Ric, d)

\* C13: when get_stock_timeseries of downloading.py is given a composite
\* table T and returns, the dates of the returned table are the dates of T
\* and of the merged series together, every column of T is there with every
\* cell of T unchanged, exactly one column, named after the identifier, has
\* been added, and T itself is never modified.
C13_OuterJoinFrame ==
    /\ []((MergedAndReturned /\ mod = "downloading" /\ isinstance_DataFrame(caller_index_df)) =>
            /\ index_df.index = caller_index_df.index \cup merged_ric_timeseries_df.index
            /\ Ric \notin caller_index_df.columns
            /\ index_df.columns = caller_index_df.columns \cup {Ric}
            /\ \A c \in caller_index_df.columns : \A d \in caller_index_df.index :
                  Cell(index_df, c, d) = Cell(caller_index_df, c, d))
    /\ [][caller_index_df' = caller_index_df]_vars

\* a composite table was passed in and the call returned a table with dates
\* that the composite table did not have
C13_Witness ==
    /\ MergedAndReturned /\ mod = "downloading"
    /\ isinstance_DataFrame(caller_index_df)
    /\ sub_status = <<"data", "data">>
    /\ index_df.index # caller_index_df.index
    /\ caller_index_df.index \subseteq index_df.index

----------------------------------------------------------------------------
(* Properties of OSDownloader.download_bucket.                             *)

\* the elements of a list
Range(seq) == { seq[i] : i \in 1..Len(seq) }

\* the remote paths queued for transfer
Queued4Transfer == Range(files_to_download)

\* C14: in download_bucket a remote path is in downloaded_files only if the
\* verification after its transfer found the local checksum equal to the
\* remote one; a transfer whose verification found them different is never
\* in downloaded_files and, once its future is looked at, is in
\* corrupted_files; for every interleaving of the worker threads.
C14_VerifiedOnly ==
    \A r \in ObjectNames :
        /\ r \in Range(downloaded_files) =>
              /\ verified[r] = "equal"
              /\ calculate_md5(local_files[r]) = etag
        /\ verified[r] = "differs" =>
              /\ r \notin Range(downloaded_files)
              /\ r \in collected => r \in Range(corrupted_files)

\* the call has returned with a verified and a mismatching transfer
C14_Witness ==
    /\ os_pc = "return"
    /\ workers = 2
    /\ \E r \in Range(downloaded_files) : verified[r] = "equal"
    /\ \E r \in Range(corrupted_files) : verified[r] = "differs"

C16_OutcomePartition ==
    LET outcomes == downloaded_files \o corrupted_files
    IN  /\ \A i, j \in 1..Len(outcomes) : outcomes[i] = outcomes[j] => i = j
        /\ Range(outcomes) \subseteq Queued4Transfer
        /\ os_pc = "return" =>
              /\ Range(outcomes) = Queued4Transfer
              /\ \A r \in Queued4Transfer : IsDone(futures[r])
              /\ \A w \in Threads : running[w] = Idle
              /\ work_queue = <<>>

\* the call has returned three transfers, in both lists, out of queue order
C16_Witness ==
    /\ os_pc = "return"
    /\ workers = 2
    /\ Len(files_to_download) = 3
    /\ Len(downloaded_files) = 2
    /\ Len(corrupted_files) = 1
    /\ downloaded_files[1] # files_to_download[1]

\* C17: a transfer that ends with a hard error (fget_object raises S3Error
\* or another exception) is classified as failed: its remote path is in
\* neither corrupted_files nor downloaded_files.
C17_HardErrorNotCorrupted ==
    \A r \in ObjectNames :
        transfer[r] \in {"S3Error", "Exception"} =>
            r \notin Range(corrupted_files) \cup Range(downloaded_files)

----------------------------------------------------------------------------
(* Properties of the chunk loop.                                           *)

RECURSIVE sum_data_rows(_)
\* the rows of the chunks that returned data
sum_data_rows(statuses) ==
    IF statuses = <<>> THEN 0
    ELSE (IF Head(statuses).status = "data" THEN Head(statuses).nrows ELSE 0)
            + sum_data_rows(Tail(statuses))

\* C18: in the chunk loop for one target date, a chunk whose fetch ends with
\* a fault or with the retry budget used up does not discard the results of
\* the other chunks, and the combined table has as many rows as the chunks
\* that returned data together (a failed chunk contributes no row).
C18_RowsOfDataChunks ==
    /\ batch_pc = "merged" => merged_df.nrows = sum_data_rows(chunk_status)
    /\ batch_pc = "continue" => sum_data_rows(chunk_status) = 0

----------------------------------------------------------------------------
(* Properties of generate_target_dates.                                    *)

\* the end date names a calendar day
ParsableEndDate ==
    /\ gt_end[2] \in 1..12
    /\ gt_end[3] \in 1..31
    /\ gt_end[2] \in {4, 6, 9, 11} => gt_end[3] <= 30
    /\ gt_end[2] = 2 =>
           gt_end[3] <= (IF gt_end[1] % 4 = 0 /\ (gt_end[1] % 100 # 0 \/ gt_end[1] % 400 = 0)
                         THEN 29 ELSE 28)

\* date a is before date b (strings "YYYY-MM-DD" compare as the dates do)
Before(a, b) ==
    \/ a[1] < b[1]
    \/ a[1] = b[1] /\ a[2] < b[2]
    \/ a[1] = b[1] /\ a[2] = b[2] /\ a[3] < b[3]

\* the dates per year of a frequency name
PerYear(frequency) ==
    IF frequency = "months" THEN 12 ELSE IF frequency = "quarters" THEN 4 ELSE 1

\* C19: for every frequency in {months, quarters, years}, every num_years
\* from 1 to 99 and every end date that names a calendar day,
\* generate_target_dates of downloading.py returns exactly
\* num_years x 12, x 4 or x 1 dates, strictly decreasing when reverse is
\* true and strictly increasing when it is false (hence all distinct).
C19_CountAndOrder ==
    (/\ gt_module = "downloading" /\ gt_pc # "call"
     /\ ParsableEndDate
     /\ gt_frequency \in {"months", "quarters", "years"}
     /\ gt_num_years \in 1..99) =>
        /\ gt_pc = "return"
        /\ Len(gt_ret.dates) = gt_num_years * PerYear(gt_frequency)
        /\ \A i \in 1..(Len(gt_ret.dates) - 1) :
              IF gt_reverse
              THEN Before(gt_ret.dates[i + 1], gt_ret.dates[i])
              ELSE Before(gt_ret.dates[i], gt_ret.dates[i + 1])

\* 99 years of quarters were returned, oldest first
C19_Witness ==
    /\ gt_module = "downloading" /\ gt_pc = "return"
    /\ gt_frequency = "quarters"
    /\ gt_num_years = 99
    /\ ~gt_reverse
    /\ Len(gt_ret.dates) = 396

\* the most recent date of the list returned
MostRecent ==
    IF gt_reverse THEN gt_ret.dates[1] ELSE gt_ret.dates[Len(gt_ret.dates)]

\* the call returned a list that is not empty
TargetsReturned == gt_pc = "return" /\ gt_ret.dates # <<>>

\* the period of the frequency of the call, in months
PeriodMonths ==
    IF lower(gt_frequency) \in {"months", "m"} THEN 1
    ELSE IF lower(gt_frequency) \in {"quarters", "q"} THEN 3
    ELSE 12

\* the date is the last day of a period of the frequency of the call
IsPeriodEnd(date) ==
    /\ IsValidDate(date[1], date[2], date[3])
    /\ ~IsValidDate(date[1], date[2], date[3] + 1)
    /\ date[2] \in { PeriodMonths * k : k \in 1..12 }

----------------------------------------------------------------------------
(* The quarter ends of the two years before 2024-12-31, and the inputs    *)
(* generate_target_dates refuses.                                          *)

\* C21: generate_target_dates("2024-12-31", 2, "quarters") with the default
\* ordering returns the eight quarter ends from 2024-12-31 back to 2023-03-31,
\* the most recent first
C21_EightQuarterEnds ==
    (/\ gt_pc = "return"
     /\ gt_end = <<2024, 12, 31>>
     /\ gt_num_years = 2
     /\ gt_frequency = "quarters"
     /\ gt_reverse)
    => gt_ret.dates = << <<2024, 12, 31>>, <<2024, 9, 30>>, <<2024, 6, 30>>,
                         <<2024, 3, 31>>, <<2023, 12, 31>>, <<2023, 9, 30>>,
                         <<2023, 6, 30>>, <<2023, 3, 31>> >>

\* the call of the scenario has returned, in downloading.py
C21_Witness ==
    /\ gt_module = "downloading"
    /\ gt_pc = "return"
    /\ gt_end = <<2024, 12, 31>>
    /\ gt_num_years = 2
    /\ gt_frequency = "quarters"
    /\ gt_reverse
    /\ Len(gt_ret.dates) = 8

\* the spellings drawn that name a frequency when letter case is ignored
AcceptedSpellings == {"months", "quarters", "years", "m", "q", "y", "Quarters", "M"}

\* the frequency or the number of years is one the function refuses
RefusedArguments ==
    \/ gt_frequency \notin AcceptedSpellings
    \/ gt_num_years <= 0
    \/ gt_num_years >= 100

\* C22 (as amended): generate_target_dates of downloading.py raises and
\* produces no dates when the frequency is not an accepted name, compared
\* without letter case, when num_years <= 0 or num_years >= 100, or when the
\* end date cannot be parsed; for every other input it returns a list of dates
C22_RefusedOrList ==
    (gt_module = "downloading" /\ gt_pc \in {"return", "raise"}) =>
        /\ gt_pc = "raise" <=> (RefusedArguments \/ ~ParsableEndDate)
        /\ gt_pc = "raise" => gt_ret.exc = "ValueError" /\ gt_ret.dates = <<>>
        /\ gt_pc = "return" => gt_ret.exc = NoExc /\ Len(gt_ret.dates) > 0

\* a frequency written with a capital letter is accepted and a list returned
C22_Witness ==
    /\ gt_module = "downloading"
    /\ gt_pc = "return"
    /\ gt_frequency = "Quarters"
    /\ gt_num_years = 99
    /\ Len(gt_ret.dates) = 396

\* C22 (as stated): the function raises exactly for a refused frequency or
\* number of years, and returns a list for every other input
C22_ListForEveryOther ==
    (gt_module = "downloading" /\ gt_pc \in {"return", "raise"}) =>
        (gt_pc = "raise" <=> RefusedArguments)

----------------------------------------------------------------------------
(* Errors of the arguments.                                                *)

\* the span of a time-series call is no span: no start_date (and no
\* num_years) is given, or the start is after the end
BadSpan == ts_start = None \/ Before(ts_end, ts_start)

\* C23: a call of get_stock_timeseries or get_index_timeseries whose
\* start_date is after its end_date, or that has neither start_date nor
\* num_years, raises ValueError with no remote request issued, no delay
\* applied and no retry counted, and a call of get_index_chain or
\* get_index_data with an identifier that is no str raises TypeError with no
\* remote request issued; such a call never returns
C23_ConfigErrorsFirst ==
    /\ (op \in {"get_stock_timeseries", "get_index_timeseries"} /\ ric_type = "str"
        /\ BadSpan) =>
           /\ pc \in {"wrapper", "call", "raise"}
           /\ outer_pc \in {"none", "call", "inner", "raise"}
           /\ pc = "raise" => raised = "ValueError"
           /\ requests = 0 /\ trace = <<>> /\ last_delay = "none" /\ retry_count = 0
    /\ (op \in {"get_index_chain", "get_index_data"} /\ ric_type # "str") =>
           /\ pc \in {"wrapper", "call", "raise"}
           /\ outer_pc \in {"none", "call", "raise"}
           /\ (pc = "raise" \/ outer_pc = "raise") => raised = "TypeError"
           /\ requests = 0 /\ trace = <<>> /\ last_delay = "none" /\ retry_count = 0

\* get_index_timeseries, called with neither start_date nor num_years, has
\* passed on the ValueError of its get_stock_timeseries call
C23_Witness ==
    /\ op = "get_index_timeseries"
    /\ ts_start = None
    /\ outer_pc = "raise"
    /\ pc = "raise"
    /\ raised = "ValueError"
    /\ requests = 0
    /\ max_retries > 0

----------------------------------------------------------------------------
(* Exceptions of a remote call that are no Eikon faults.                   *)

\* C24: in both modules, a remote request that raises an exception which is
\* no Eikon fault adds exactly one to the retry count and leaves the call in
\* its retry loop, where the same fetch is attempted again while the budget
\* lasts; it does not end the fetch
C24_UnclassifiedRetried ==
    [][(Requests /\ last_outcome'.kind = "Exception") =>
          (retry_count' = retry_count + 1 /\ pc' = "loop")]_vars

----------------------------------------------------------------------------
(* What get_constituents_data returns as a success.                        *)

\* C25: whenever get_constituents_data of downloading.py returns with the
\* error None, the table returned is a non-empty DataFrame, also where the
\* response carried an error entry of code 412 (identifiers not resolved)
C25_SuccessHasData ==
    (/\ mod = "downloading" /\ op = "get_constituents_data"
     /\ pc = "return" /\ ret_err = NoError) =>
        isinstance_DataFrame(ret_df) /\ ~empty(ret_df)

----------------------------------------------------------------------------
(* The fault of code -1 in get_stock_timeseries.                           *)

\* a call of get_stock_timeseries, of either module
TSCallOp == op = "get_stock_timeseries"

\* C26 (as amended): in get_stock_timeseries of both modules, a request that
\* raises the Eikon fault of code -1 ends the retry loop of its sub-range
\* with no delay and no retry counted, and no further request is issued for
\* that sub-range: the next step of the call goes on to the next older
\* sub-range (or to the merge), whose retry loop starts anew
C26_NoRetryOfSubRange ==
    /\ [][(TSCallOp /\ Requests
            /\ last_outcome'.kind = "EikonError" /\ last_outcome'.code = -1) =>
              /\ pc' = "skipped"
              /\ retry_count' = retry_count
              /\ last_delay' = "none"
              /\ sub' = sub]_vars
    /\ [][(TSCallOp /\ pc = "skipped") =>
              /\ sub' = sub + 1
              /\ requests' = 0
              /\ sub_status' = Append(sub_status, "skip")
              /\ pc' = IF sub < Len(start_dates) THEN "loop" ELSE "merge"]_vars

\* the newest sub-range ended with the fault of code -1, and a request for
\* the older sub-range was issued after it and returned data
C26_Witness ==
    /\ TSCallOp
    /\ sub = 2
    /\ sub_status = <<"skip">>
    /\ requests = 1
    /\ pc = "break"

\* C26 (as stated): once a request raised the fault of code -1, no further
\* request is issued during the call, neither for the same sub-range nor for
\* an older one
C26_NoRequestAfterSkip ==
    (TSCallOp /\ "skip" \in Range(sub_status)) => requests = 0

----------------------------------------------------------------------------
(* Attempts that return no usable result.                                  *)

\* C27: in every fetch path of downloading.py, a request that returns an
\* empty or malformed result without raising, after which the call stays in
\* its retry loop, adds one to the retry count and sleeps the backoff delay
\* for "no data" (the general-error delay) before the next request
C27_SoftFailureBacksOff ==
    [][(/\ mod = "downloading" /\ op \in FetchOps
        /\ Requests
        /\ last_outcome'.kind = "result"
        /\ pc' = "loop") =>
          /\ retry_count' = retry_count + 1
          /\ last_delay' = "general_error"
          /\ trace'[Len(trace')] = "general_error"]_vars

----------------------------------------------------------------------------
(* The three retry loops, side by side.                                    *)

\* the delay tier of a raised fault
TierOf(o) ==
    IF o.kind = "Exception" THEN "general_error"
    ELSE CASE o.code = 429  -> "request_limit"
           [] o.code = 401  -> "proxy_error"
           [] o.code = 500  -> "network_error"
           [] o.code = 2504 -> "gateway"
           [] o.code = -1   -> "none"
           [] OTHER         -> "general_error"

\* the latest fault is the Eikon fault of code -1
LastIsTerminal ==
    LET o == side_faults[Len(side_faults)]
    IN  o.kind = "EikonError" /\ o.code = -1

\* C28: the retry loops of get_index_chain, get_stock_timeseries and
\* get_constituents_data of downloading.py, fed the same raised faults, take
\* the same recovery at every pass: 429 the request-limit delay, 401 the
\* proxy delay, 500 the network delay, 2504 the gateway delay, every other
\* Eikon code and every non-Eikon exception the general-error delay, each
\* with one delay and one added to the retry count; code -1 ends the loop
\* with no delay and no retry counted
C28_SameRecovery ==
    side_faults # <<>> =>
        \A f \in LoopOps :
            /\ side_delay[f] = TierOf(side_faults[Len(side_faults)])
            /\ IF LastIsTerminal
               THEN side_pc[f] = "ended" /\ side_retry[f] = Len(side_faults) - 1
               ELSE side_pc[f] = "loop" /\ side_retry[f] = Len(side_faults)

\* after a network error and a non-Eikon exception, the fault of code -1
\* has ended the three loops
C28_Witness ==
    /\ Len(side_faults) = 3
    /\ side_faults[1].kind = "EikonError" /\ side_faults[1].code = 500
    /\ side_faults[2].kind = "Exception"
    /\ LastIsTerminal
    /\ \A f \in LoopOps : side_pc[f] = "ended" /\ side_retry[f] = 2

----------------------------------------------------------------------------
(* The delay between requests.                                             *)

\* C29: with a positive request_delay configured, every remote request of a
\* fetch operation is issued right after a sleep of the request delay made
\* in the same pass of the loop, hence after the request before it and after
\* any backoff delay: each pass sleeps the delay, then issues its one request
C29_DelayBeforeRequest ==
    (request_delay > 0 /\ trace # <<>>) =>
        /\ trace[1] = "request_delay"
        /\ trace[2] = "request"
        /\ \A i \in 3..Len(trace) : trace[i] # "request"

\* in the older sub-range of a get_stock_timeseries call, a request made
\* after a backoff delay was again preceded by the request delay
C29_Witness ==
    /\ op = "get_stock_timeseries"
    /\ request_delay > 0
    /\ sub = 2
    /\ requests = 2
    /\ trace = <<"request_delay", "request", "general_error">>

\* the outcome lists of download_bucket, one after the other
OutcomeRecords == downloaded_files \o corrupted_files

\* a worker thread has acted in this step: a task was taken, moved on or ended
WorkerStep == running' # running

\* C30: during download_bucket a step of a worker thread running
\* _download_file changes none of downloaded_files, corrupted_files and
\* remote_files; the outcome lists change only in a step of the coordinating
\* thread that looks at one finished future, and that step appends the path
\* of that future, once, to exactly one of the two lists; so the records
\* never outnumber or fall short of the futures looked at, for every
\* interleaving of the workers.
C30_OnlyCoordinatorAppends ==
    [][ /\ WorkerStep =>
              /\ downloaded_files' = downloaded_files
              /\ corrupted_files' = corrupted_files
              /\ remote_files' = remote_files
        /\ (OutcomeRecords' # OutcomeRecords \/ collected' # collected) =>
              /\ os_pc = "collect"
              /\ ~WorkerStep
              /\ futures' = futures
              /\ \E r \in ObjectNames \ collected :
                    /\ IsDone(futures[r])
                    /\ collected' = collected \cup {r}
                    /\ \/ /\ downloaded_files' = Append(downloaded_files, r)
                          /\ corrupted_files' = corrupted_files
                       \/ /\ corrupted_files' = Append(corrupted_files, r)
                          /\ downloaded_files' = downloaded_files
        /\ Len(OutcomeRecords') = Cardinality(collected')
      ]_vars

\* two workers are in _download_file at once, on different paths, while the
\* coordinating thread has already recorded the outcome of a third
C30_Witness ==
    /\ os_pc = "collect"
    /\ workers = 2
    /\ running[1] # Idle /\ running[2] # Idle
    /\ running[1].task # running[2].task
    /\ Len(OutcomeRecords) = 1
    /\ Cardinality(collected) = 1

\* a list holds no element twice
NoRepeats(seq) == \A i, j \in 1..Len(seq) : seq[i] = seq[j] => i = j

\* C31: whenever a download_bucket call on an OSDownloader has returned,
\* after one call or after several on the same instance, downloaded_files
\* and corrupted_files share no remote path and neither holds a remote path
\* twice.
C31_DisjointAcrossCalls ==
    os_pc = "return" =>
        /\ Range(downloaded_files) \cap Range(corrupted_files) = {}
        /\ NoRepeats(downloaded_files)
        /\ NoRepeats(corrupted_files)

\* C32: get_stock_timeseries of downloader.py, whatever failed while a
\* sub-range was fetched (an Eikon fault of any code, a non-Eikon
\* exception), returns a table with a column for the identifier that holds
\* every (date, value) row the successful sub-ranges returned, unless a
\* frame of an earlier sub-range already has the date.
C32_FetchedDataKept ==
    (TSReturned /\ mod = "downloader"
        /\ \E i \in 1..Len(ric_timeseries_df_list) :
               ric_timeseries_df_list[i].cells[Ric] # <<>>) =>
        /\ Ric \in index_df.columns
        /\ \A i \in 1..Len(ric_timeseries_df_list) :
              \A d \in DOMAIN ric_timeseries_df_list[i].cells[Ric] :
                  \/ \E j \in 1..(i - 1) : d \in ric_timeseries_df_list[j].index
                  \/ /\ d \in index_df.index
                     /\ Cell(index_df, Ric, d) = ric_timeseries_df_list[i].cells[Ric][d]

\* a step of get_constituents_data (downloading.py) in which the request
\* came back with a response and no fault was raised
ConstituentsResponse ==
    /\ op = "get_constituents_data" /\ mod = "downloading"
    /\ Requests
    /\ last_outcome'.kind = "result"

\* the response of the step is a non-empty table
NonEmptyTable(o) == o.df.type = "DataFrame" /\ o.df.nrows > 0

\* the response of the step has more rows than a tenth of the identifiers
AboveThreshold(o) == NonEmptyTable(o) /\ o.df.nrows > n_rics \div 10

\* the response carries an error entry of code 412
Has412(o) == \E i \in 1..Len(o.err) : o.err[i] = 412

\* the step returns the response as success
ReturnsResponse == pc' = "return" /\ ret_err' = NoError /\ ret_df' = last_outcome'.df

\* the step returns nothing and counts one retry
OneRetry == pc' = "loop" /\ retry_count' = retry_count + 1

\* C33 (as amended): in get_constituents_data of downloading.py with n
\* identifiers, a response that is a non-empty table is returned as success
\* exactly when it has more than floor(0.1 * n) rows or carries an error
\* entry of code 412; every response at or below that threshold (or that
\* is no table) without an entry of code 412 is not returned and counts
\* exactly one retry.
C33_ThresholdOr412 ==
    [][ ConstituentsResponse =>
          /\ NonEmptyTable(last_outcome') =>
                (ReturnsResponse <=>
                    (AboveThreshold(last_outcome') \/ Has412(last_outcome')))
          /\ (~AboveThreshold(last_outcome') /\ ~Has412(last_outcome')) => OneRetry
      ]_vars

\* twelve identifiers were requested and the response had one row and no
\* error entry: one retry is counted and the loop goes on
C33_Witness ==
    /\ op = "get_constituents_data" /\ n_rics = 12
    /\ last_outcome.kind = "result"
    /\ last_outcome.df.type = "DataFrame" /\ last_outcome.df.nrows = 1
    /\ last_outcome.err = <<>>
    /\ requests = 1 /\ retry_count = 1 /\ pc = "loop"

\* C33 (as stated): a response without a raised fault is returned as
\* success exactly when it is a non-empty table with more than
\* floor(0.1 * n) rows.
C33_ThresholdOnly ==
    [][ ConstituentsResponse =>
          (ReturnsResponse <=> AboveThreshold(last_outcome')) ]_vars

\* the name of the placeholder's column: the prefix, where one is given,
\* followed by the identifier
PlaceholderColumn == IF pre_fix = None THEN <<"SPX">> ELSE pre_fix \o <<"SPX">>

\* C34: every return of get_index_chain (downloading.py, called with a
\* non-empty str identifier) has one of two shapes: the non-empty table the
\* latest request received together with the error None, or a one-row
\* all-NaN table whose single column is named prefix + identifier together
\* with an error message; so the error is None exactly when the table
\* returned is the one received; and such a call does not raise.
C34_TwoShapes ==
    (op = "get_index_chain" /\ mod = "downloading" /\ ric_type = "str") =>
        /\ pc # "raise"
        /\ pc = "return" =>
              \/ /\ ret_err = NoError
                 /\ requests > 0
                 /\ last_outcome.kind = "result"
                 /\ ret_df = last_outcome.df
                 /\ ret_df.type = "DataFrame" /\ ret_df.nrows > 0
                 /\ Len(ret_df.columns) > 0
              \/ /\ ret_err \in {"Error: -1", "Max retries exceeded."}
                 /\ ret_df.type = "DataFrame"
                 /\ ret_df.nrows = 1 /\ ret_df.allnan
                 /\ ret_df.columns = <<PlaceholderColumn>>
                 /\ (requests > 0 => last_outcome.kind # "result" \/ ret_df # last_outcome.df)

\* a call with the prefix has returned the placeholder after a fault of
\* code -1 on its second request
C34_Witness ==
    /\ op = "get_index_chain" /\ mod = "downloading"
    /\ pre_fix # None
    /\ pc = "return"
    /\ requests = 2
    /\ ret_err = "Error: -1"
    /\ ret_df.columns = << <<"0#.">> \o <<"SPX">> >>

RECURSIVE Flatten(_)
\* the chunks joined in order
Flatten(chunks) ==
    IF chunks = <<>> THEN <<>> ELSE Head(chunks) \o Flatten(Tail(chunks))

\* C35: for every list and every chunk_size >= 1, split_list returns chunks
\* whose concatenation in order is the input list; every chunk has at most
\* chunk_size elements, every chunk but the last exactly chunk_size, and no
\* chunk is empty.
C35_ChunksPartition ==
    (sl_pc # "idle" /\ sl_pc # "call" /\ sl_chunk_size >= 1) =>
        /\ sl_pc = "return"
        /\ Flatten(sl_ret.chunks) = sl_lst
        /\ \A k \in 1..Len(sl_ret.chunks) :
              /\ Len(sl_ret.chunks[k]) <= sl_chunk_size
              /\ Len(sl_ret.chunks[k]) > 0
              /\ k < Len(sl_ret.chunks) => Len(sl_ret.chunks[k]) = sl_chunk_size

\* a list of four elements, one of them twice, was split by three into a
\* full chunk and a last chunk of one
C35_Witness ==
    /\ sl_pc = "return"
    /\ sl_lst = <<"r1", "r2", "r1", "r3">>
    /\ sl_chunk_size = 3
    /\ sl_ret.chunks = << <<"r1", "r2", "r1">>, <<"r3">> >>

\* get_index_data of downloading.py has returned
IndexDataReturned ==
    op = "get_index_data" /\ mod = "downloading" /\ outer_pc = "return"

\* C36: get_index_data (downloading.py, called with a str identifier)
\* returns either a non-empty table with the error None, or None with an
\* error message: never None for both, also when the table fetched is
\* rejected for its NaN ratio; and no remote failure makes it raise.
C36_TableOrError ==
    (op = "get_index_data" /\ mod = "downloading" /\ ric_type = "str") =>
        /\ outer_pc # "raise"
        /\ outer_pc = "return" =>
              \/ /\ ret_err = NoError
                 /\ isinstance_DataFrame(ret_df) /\ ~empty(ret_df)
              \/ /\ ret_err # NoError
                 /\ ret_df = NoneValue

\* the frames of the sub-ranges hold no value
AllPlaceholders ==
    \A i \in 1..Len(ric_timeseries_df_list) :
        /\ ric_timeseries_df_list[i].columns = {Ric}
        /\ ric_timeseries_df_list[i].cells[Ric] = <<>>

\* C37: with max_retries <= 0 a fetch operation issues no remote request
\* and applies no delay; get_index_chain (called with a str identifier)
\* returns the placeholder with "Max retries exceeded."; get_stock_timeseries
\* of downloading.py, where the date range is valid, returns a table in
\* which every sub-range is a NaN placeholder: one frame per sub-range, no
\* value in any, and no value in the identifier's column of the table
\* returned.
C37_NoBudgetNoRequest ==
    (max_retries <= 0 /\ op \in FetchOps \cup {"get_index_data", "get_index_timeseries"}) =>
        /\ requests = 0
        /\ last_outcome = NoRequestYet
        /\ last_delay = "none"
        /\ trace = <<>>
        /\ (op = "get_index_chain" /\ ric_type = "str") =>
              /\ pc # "raise"
              /\ pc = "return" =>
                    /\ ret_err = "Max retries exceeded."
                    /\ ret_df.type = "DataFrame"
                    /\ ret_df.nrows = 1 /\ ret_df.allnan
                    /\ ret_df.columns = <<PlaceholderColumn>>
        /\ (op = "get_stock_timeseries" /\ mod = "downloading" /\ pc = "return") =>
              /\ Len(ric_timeseries_df_list) = Len(start_dates)
              /\ Len(start_dates) > 0
              /\ AllPlaceholders
              /\ \A i \in 1..Len(sub_status) : sub_status[i] = "exhausted"
              /\ Ric \in index_df.columns
              /\ index_df.cells[Ric] = <<>>

\* get_stock_timeseries of downloading.py has returned two placeholders
\* with max_retries = 0 and a positive request_delay configured
C37_Witness ==
    /\ op = "get_stock_timeseries" /\ mod = "downloading"
    /\ max_retries = 0
    /\ request_delay > 0
    /\ pc = "return"
    /\ Len(ric_timeseries_df_list) = 2
    /\ requests = 0

\* C38: for every end_date that names a calendar day, 29 February of a leap
\* year too, and every num_years >= 1 with no start_date, a call of
\* generate_decade_dates (either module) does not fail: it returns two lists
\* of the same length, not empty, and sub_start <= sub_end in every pair.
C38_ResolvesAndReturns ==
    (/\ dd_pc \in {"return", "raise"}
     /\ dd_start = None
     /\ dd_num_years # None
     /\ dd_num_years[1] >= 1) =>
        /\ dd_pc = "return"
        /\ Len(dd_ret.start_dates) = Len(dd_ret.end_dates)
        /\ Len(dd_ret.start_dates) > 0
        /\ \A i \in 1..Len(dd_ret.start_dates) :
              StrOrdinal(dd_ret.start_dates[i]) <= StrOrdinal(dd_ret.end_dates[i])

====
